---- MODULE Spec2Model ----
(***************************************************************************)
(* Model of coursebuilder/models/models.py: MemcacheManager, the two-tier  *)
(* cache facade (process-local read-only snapshot cache in front of the    *)
(* distributed memcache service), and BaseJsonDao, the record store built  *)
(* on it and on the datastore.                                             *)
(*                                                                         *)
(* Every Python method is an operator from a machine state record `s` and  *)
(* the inputs of the call to a result record [s, exc, ret]: the state      *)
(* after the call, the exception that left the call ("None" when it        *)
(* returned) and the returned value.  An action of the specification is    *)
(* one whole call of a public method.                                      *)
(***************************************************************************)
EXTENDS Integers, Sequences, FiniteSets, TLC

(* ------------------------------------------------------------------ *)
(* Bounds of the model                                                 *)
(* ------------------------------------------------------------------ *)

\* Deepest nesting of begin_readonly explored by Spec.
MaxReentry == 2

\* Deepest nesting of begin_readonly explored by SpecCache.
CacheMaxReentry == 1

\* Longest key list handed to get_multi / delete_multi.
MaxKeys == 2

\* Largest value a memcache counter is incremented to.
MaxCounter == 2

\* Longest list handed to bulk_load / save_all.
MaxIds == 2

(* ------------------------------------------------------------------ *)
(* Program constants                                                   *)
(* ------------------------------------------------------------------ *)

MEMCACHE_MAX == 1048230

MEMCACHE_MULTI_MAX == 33554432

\* Python's None.
NoneVal == "None"

\* Course contexts sites.get_course_for_current_request() can return
\* (besides None, when the request belongs to no course).
Courses == {"courseA", "courseB"}

CoursesOrNone == Courses \cup {NoneVal}

\* appengine_config.DEFAULT_NAMESPACE_NAME
DEFAULT_NAMESPACE_NAME == "default"

Namespaces == {"ns1", DEFAULT_NAMESPACE_NAME}

Keys == {"k1", "k2"}

\* Values small enough for memcache.
Values == {"v1", "v2"}

\* The ids of the entities of BaseJsonDao.ENTITY: datastore ids (written in
\* decimal, as '%s' formats them into the memcache key) or key names.
Ids == {"1", "2"}

\* cls.ENTITY.kind()
ENTITY_kind == "JsonEntity"

\* BaseJsonDao._memcache_key(obj_id)
_memcache_key(obj_id) == "(entity:" \o ENTITY_kind \o ":" \o obj_id \o ")"

\* BaseJsonDao._memcache_all_key()
_memcache_all_key == "(entity-get-all:" \o ENTITY_kind \o ")"

\* The keys of the distributed cache: the keys direct callers of
\* MemcacheManager use and the keys of BaseJsonDao.
AllKeys ==
    Keys \cup {_memcache_key(i) : i \in Ids} \cup {_memcache_all_key}
         \cup {"entity:student_property:" \o i : i \in Ids}

\* sys.getsizeof of the values the model writes: "big" is over the
\* per-item ceiling, "huge" over the per-batch ceiling.
SizeOf(v) ==
    CASE v = "big" -> MEMCACHE_MAX + 1
      [] v = "huge" -> MEMCACHE_MULTI_MAX + 1
      [] OTHER -> 64

(* ------------------------------------------------------------------ *)
(* Python dictionaries and lists                                       *)
(* ------------------------------------------------------------------ *)

EmptyDict == [k \in {} |-> NoneVal]

DictPut(d, k, v) == [x \in (DOMAIN d) \cup {k} |-> IF x = k THEN v ELSE d[x]]

\* The set of elements of a list.
Range(seq) == {seq[i] : i \in 1..Len(seq)}

\* All lists over S of length 1..n.
ListsUpTo(S, n) == UNION {[1..m -> S] : m \in 1..n}

\* All non-empty dicts with keys in K and values in V.
DictsOver(K, V) == UNION {[D -> V] : D \in (SUBSET K) \ {{}}}

(* ------------------------------------------------------------------ *)
(* Performance counters: the increments made by one call               *)
(* ------------------------------------------------------------------ *)

ZeroCounters ==
    [CACHE_PUT |-> 0, CACHE_PUT_TOO_BIG |-> 0, CACHE_HIT |-> 0,
     CACHE_MISS |-> 0, CACHE_DELETE |-> 0, CACHE_PUT_LOCAL |-> 0,
     CACHE_HIT_LOCAL |-> 0, CACHE_MISS_LOCAL |-> 0]

\* PerfCounter.inc(increment=n) on counter c of state s.
Inc(s, c, n) == [s EXCEPT !.ctr = [@ EXCEPT ![c] = @ + n]]

(* ------------------------------------------------------------------ *)
(* Results of a call                                                   *)
(* ------------------------------------------------------------------ *)

Return(s, v) == [s |-> s, exc |-> NoneVal, ret |-> v]

Raise(s, e) == [s |-> s, exc |-> e, ret |-> [kind |-> "none"]]

\* Returned values: None, one cached value, a list, a dict.
RetNone == [kind |-> "none"]

RetValue(v) == [kind |-> "value", v |-> v]

RetList(l) == [kind |-> "list", items |-> l]

RetDict(d) == [kind |-> "dict", items |-> d]

(* ------------------------------------------------------------------ *)
(* State                                                               *)
(* ------------------------------------------------------------------ *)

VARIABLES
    LOCAL_CACHE,             \* MemcacheManager._LOCAL_CACHE
    IS_READONLY,             \* MemcacheManager._IS_READONLY
    READONLY_REENTRY_COUNT,  \* MemcacheManager._READONLY_REENTRY_COUNT
    READONLY_APP_CONTEXT,    \* MemcacheManager._READONLY_APP_CONTEXT
    CAN_USE_MEMCACHE,        \* CAN_USE_MEMCACHE.value
    currentCourse,           \* sites.get_course_for_current_request()
    fsReadonly,              \* app_context.fs.is_in_readonly, per course
    memcacheStore,           \* content of the distributed cache
    datastore,               \* the entities of BaseJsonDao.ENTITY
    ENTITY_KEY_TYPE,         \* BaseJsonDao.ENTITY_KEY_TYPE
    units,                   \* the DAO calls in progress, per request unit
    last                     \* the last call: its inputs and what it did

vars == <<LOCAL_CACHE, IS_READONLY, READONLY_REENTRY_COUNT,
          READONLY_APP_CONTEXT, CAN_USE_MEMCACHE, currentCourse, fsReadonly,
          memcacheStore, datastore, ENTITY_KEY_TYPE, units, last>>

\* _LOCAL_CACHE = None, and _LOCAL_CACHE = {namespace: {key: value}}.
NoCache == [tag |-> "None"]

DictCache(d) == [tag |-> "dict", d |-> d]

\* The distributed cache holds nothing under (namespace, key).
Missing == "missing"

\* The machine state a call starts from: the class attributes, the file
\* systems, the distributed cache, the datastore; no memcache, fs or
\* datastore call made yet, no counter incremented yet.
Cur ==
    [lc |-> LOCAL_CACHE, ro |-> IS_READONLY, cnt |-> READONLY_REENTRY_COUNT,
     actx |-> READONLY_APP_CONTEXT, fs |-> fsReadonly, mc |-> memcacheStore,
     ds |-> datastore, calls |-> <<>>, fscalls |-> <<>>, dscalls |-> <<>>,
     dsat |-> <<>>, hookcalls |-> <<>>,
     ctr |-> ZeroCounters]

\* What a call sees of its request: the course of the current request, the
\* value of the CAN_USE_MEMCACHE property, the namespace the
\* namespace_manager holds and whether the distributed cache backend fails
\* the request made to it.
Env(mns, fail) ==
    [course |-> currentCourse, can |-> CAN_USE_MEMCACHE, namespace |-> mns,
     fail |-> fail]

(* ------------------------------------------------------------------ *)
(* controllers.sites and the course file system                        *)
(* ------------------------------------------------------------------ *)

\* sites.ApplicationContext.check_same(this, other)
check_same(a, b) == a = b

\* app_context.fs.begin_readonly()
fs_begin_readonly(s, course) ==
    [s EXCEPT !.fs = [@ EXCEPT ![course] = TRUE],
              !.fscalls = Append(@, <<"begin_readonly", course>>)]

\* app_context.fs.end_readonly()
fs_end_readonly(s, course) ==
    [s EXCEPT !.fs = [@ EXCEPT ![course] = FALSE],
              !.fscalls = Append(@, <<"end_readonly", course>>)]

\* app_context.fs.is_in_readonly
fs_is_in_readonly(s, course) == s.fs[course]

(* ------------------------------------------------------------------ *)
(* MemcacheManager: the snapshot session                               *)
(* ------------------------------------------------------------------ *)

\* Mutant: the owner is never compared with the caller.
_is_same_app_context_never_checked(s, env) == TRUE

_is_same_app_context_if_set(s, env) ==
    IF s.actx = NoneVal THEN TRUE ELSE check_same(s.actx, env.course)

\* Mutant: the reset forgets the file system of the owning course.
clear_readonly_cache_keeps_fs(s) ==
    [s EXCEPT !.lc = NoCache, !.ro = FALSE, !.cnt = 0, !.actx = NoneVal]

clear_readonly_cache(s) ==
    LET s1 == [s EXCEPT !.lc = NoCache, !.ro = FALSE, !.cnt = 0]
        s2 == IF s1.actx # NoneVal /\ fs_is_in_readonly(s1, s1.actx)
              THEN fs_end_readonly(s1, s1.actx)
              ELSE s1
    IN  [s2 EXCEPT !.actx = NoneVal]

_assert_true_clear_cache_and_raise_if_not(s, value_to_assert) ==
    IF ~value_to_assert
    THEN Raise(clear_readonly_cache(s), "AssertionError")
    ELSE Return(s, RetNone)

_fs_begin_readonly(s, env) ==
    LET s1 == [s EXCEPT !.actx = env.course]
    IN  IF s1.actx # NoneVal THEN fs_begin_readonly(s1, s1.actx) ELSE s1

_fs_end_readonly(s) ==
    LET s1 == IF s.actx # NoneVal THEN fs_end_readonly(s, s.actx) ELSE s
    IN  [s1 EXCEPT !.actx = NoneVal]

begin_readonly(s, env) ==
    LET a1 == _assert_true_clear_cache_and_raise_if_not(s, s.cnt >= 0)
        a2 == _assert_true_clear_cache_and_raise_if_not(
                  a1.s, _is_same_app_context_if_set(a1.s, env))
        s3 == IF a2.s.cnt = 0
              THEN _fs_begin_readonly(
                       [a2.s EXCEPT !.ro = TRUE, !.lc = DictCache(EmptyDict)],
                       env)
              ELSE a2.s
    IN  IF a1.exc # NoneVal THEN a1
        ELSE IF a2.exc # NoneVal THEN a2
        ELSE Return([s3 EXCEPT !.cnt = @ + 1], RetNone)

\* Mutant: every end tears the session down, nested or not.
end_readonly_tears_down_nested(s, env) ==
    LET a1 == _assert_true_clear_cache_and_raise_if_not(s, s.cnt > 0)
        a2 == _assert_true_clear_cache_and_raise_if_not(
                  a1.s, _is_same_app_context_if_set(a1.s, env))
        s3 == [a2.s EXCEPT !.cnt = @ - 1]
        s4 == [_fs_end_readonly(s3) EXCEPT
                   !.ro = FALSE, !.lc = NoCache, !.actx = NoneVal]
    IN  IF a1.exc # NoneVal THEN a1
        ELSE IF a2.exc # NoneVal THEN a2
        ELSE Return(s4, RetNone)

\* Mutant: the re-entry counter is checked with >= instead of >.
end_readonly_accepts_zero(s, env) ==
    LET a1 == _assert_true_clear_cache_and_raise_if_not(s, s.cnt >= 0)
        a2 == _assert_true_clear_cache_and_raise_if_not(
                  a1.s, _is_same_app_context_if_set(a1.s, env))
        s3 == [a2.s EXCEPT !.cnt = @ - 1]
        s4 == IF s3.cnt = 0
              THEN [_fs_end_readonly(s3) EXCEPT
                        !.ro = FALSE, !.lc = NoCache, !.actx = NoneVal]
              ELSE s3
    IN  IF a1.exc # NoneVal THEN a1
        ELSE IF a2.exc # NoneVal THEN a2
        ELSE Return(s4, RetNone)

\* Mutant: the final end leaves the local map in place.
end_readonly_keeps_local_map(s, env) ==
    LET a1 == _assert_true_clear_cache_and_raise_if_not(s, s.cnt > 0)
        a2 == _assert_true_clear_cache_and_raise_if_not(
                  a1.s, _is_same_app_context_if_set(a1.s, env))
        s3 == [a2.s EXCEPT !.cnt = @ - 1]
        s4 == IF s3.cnt = 0
              THEN [_fs_end_readonly(s3) EXCEPT
                        !.ro = FALSE, !.lc = DictCache(EmptyDict),
                        !.actx = NoneVal]
              ELSE s3
    IN  IF a1.exc # NoneVal THEN a1
        ELSE IF a2.exc # NoneVal THEN a2
        ELSE Return(s4, RetNone)

end_readonly(s, env) ==
    LET a1 == _assert_true_clear_cache_and_raise_if_not(s, s.cnt > 0)
        a2 == _assert_true_clear_cache_and_raise_if_not(
                  a1.s, _is_same_app_context_if_set(a1.s, env))
        s3 == [a2.s EXCEPT !.cnt = @ - 1]
        s4 == IF s3.cnt = 0
              THEN [_fs_end_readonly(s3) EXCEPT
                        !.ro = FALSE, !.lc = NoCache, !.actx = NoneVal]
              ELSE s3
    IN  IF a1.exc # NoneVal THEN a1
        ELSE IF a2.exc # NoneVal THEN a2
        ELSE Return(s4, RetNone)

(* ------------------------------------------------------------------ *)
(* The distributed cache service (google.appengine.api.memcache)       *)
(* ------------------------------------------------------------------ *)

\* One request to the service, as logged in s.calls.
Call(op, ns, keys) == [op |-> op, ns |-> ns, keys |-> keys]

\* The request is made; the backend fails it iff env.fail.
Request(s, op, ns, keys) == [s EXCEPT !.calls = Append(@, Call(op, ns, keys))]

\* memcache.get(key, namespace=ns): the value, None when there is none.
memcache_get(s, env, key, ns) ==
    LET s1 == Request(s, "get", ns, {key})
    IN  IF env.fail THEN Raise(s1, "BackendError")
        ELSE Return(s1, IF s.mc[ns][key] = Missing THEN NoneVal
                        ELSE s.mc[ns][key])

\* memcache.get_multi(keys, namespace=ns): a dict of the keys found.
memcache_get_multi(s, env, keys, ns) ==
    LET s1 == Request(s, "get_multi", ns, Range(keys))
        found == {k \in Range(keys) : s.mc[ns][k] # Missing}
    IN  IF env.fail THEN Raise(s1, "BackendError")
        ELSE Return(s1, [k \in found |-> s.mc[ns][k]])

\* memcache.set(key, value, ttl, namespace=ns)
memcache_set(s, env, key, value, ns) ==
    LET s1 == Request(s, "set", ns, {key})
    IN  IF env.fail THEN Raise(s1, "BackendError")
        ELSE Return([s1 EXCEPT !.mc[ns][key] = value], RetNone)

\* memcache.set_multi(mapping, time=ttl, namespace=ns)
memcache_set_multi(s, env, mapping, ns) ==
    LET s1 == Request(s, "set_multi", ns, DOMAIN mapping)
    IN  IF env.fail THEN Raise(s1, "BackendError")
        ELSE Return([s1 EXCEPT !.mc[ns] =
                         [k \in DOMAIN @ |-> IF k \in DOMAIN mapping
                                             THEN mapping[k] ELSE @[k]]],
                    RetNone)

\* memcache.delete(key, namespace=ns)
memcache_delete(s, env, key, ns) ==
    LET s1 == Request(s, "delete", ns, {key})
    IN  IF env.fail THEN Raise(s1, "BackendError")
        ELSE Return([s1 EXCEPT !.mc[ns][key] = Missing], RetNone)

\* memcache.delete_multi(key_list, namespace=ns)
memcache_delete_multi(s, env, key_list, ns) ==
    LET s1 == Request(s, "delete_multi", ns, Range(key_list))
    IN  IF env.fail THEN Raise(s1, "BackendError")
        ELSE Return([s1 EXCEPT !.mc[ns] =
                         [k \in DOMAIN @ |-> IF k \in Range(key_list)
                                             THEN Missing ELSE @[k]]],
                    RetNone)

\* Counters are held by memcache as decimal strings.
DecimalStrings == <<"1", "2", "3", "4", "5", "6", "7", "8", "9">>

IsCounter(v) == \E n \in 1..Len(DecimalStrings) : DecimalStrings[n] = v

CounterOf(v) == CHOOSE n \in 1..Len(DecimalStrings) : DecimalStrings[n] = v

\* memcache.incr(key, delta, namespace=ns, initial_value=0): a missing key
\* starts from 0, a value that is no counter is left alone (None returned).
memcache_incr(s, env, key, delta, ns) ==
    LET s1 == Request(s, "incr", ns, {key})
        old == s.mc[ns][key]
    IN  IF env.fail THEN Raise(s1, "BackendError")
        ELSE IF old = Missing
        THEN Return([s1 EXCEPT !.mc[ns][key] = DecimalStrings[delta]],
                    RetValue(DecimalStrings[delta]))
        ELSE IF IsCounter(old)
        THEN Return([s1 EXCEPT !.mc[ns][key] =
                         DecimalStrings[CounterOf(old) + delta]],
                    RetValue(DecimalStrings[CounterOf(old) + delta]))
        ELSE Return(s1, RetNone)

(* ------------------------------------------------------------------ *)
(* MemcacheManager: the local (snapshot) tier                          *)
(* ------------------------------------------------------------------ *)

\* _dict = cls._LOCAL_CACHE.get(namespace)
\* if not _dict: _dict = {}; cls._LOCAL_CACHE[namespace] = _dict
\* The state with the namespace's dict in place.
_local_dict(s, ns) ==
    IF ns \in DOMAIN s.lc.d /\ s.lc.d[ns] # EmptyDict
    THEN s
    ELSE [s EXCEPT !.lc = DictCache(DictPut(s.lc.d, ns, EmptyDict))]

\* Mutant: the local tier never reports a hit.
_local_cache_get_never_hits(s, env, key, ns) ==
    IF s.ro
    THEN IF ~_is_same_app_context_if_set(s, env)
         THEN Raise(s, "AssertionError")
         ELSE IF s.lc = NoCache
         THEN Raise(s, "AttributeError")
         ELSE Return(Inc(_local_dict(s, ns), "CACHE_MISS_LOCAL", 1),
                     <<FALSE, NoneVal>>)
    ELSE Return(s, <<FALSE, NoneVal>>)

\* Returns ret = <<is_cached, value>>.
_local_cache_get(s, env, key, ns) ==
    IF s.ro
    THEN IF ~_is_same_app_context_if_set(s, env)
         THEN Raise(s, "AssertionError")
         ELSE IF s.lc = NoCache
         THEN Raise(s, "AttributeError")
         ELSE LET s1 == _local_dict(s, ns)
              IN  IF key \in DOMAIN s1.lc.d[ns]
                  THEN Return(Inc(s1, "CACHE_HIT_LOCAL", 1),
                              <<TRUE, s1.lc.d[ns][key]>>)
                  ELSE Return(Inc(s1, "CACHE_MISS_LOCAL", 1),
                              <<FALSE, NoneVal>>)
    ELSE Return(s, <<FALSE, NoneVal>>)

\* Mutant: the put counts but stores nothing.
_local_cache_put_stores_nothing(s, env, key, ns, value) ==
    IF s.ro
    THEN IF ~_is_same_app_context_if_set(s, env)
         THEN Raise(s, "AssertionError")
         ELSE IF s.lc = NoCache
         THEN Raise(s, "AttributeError")
         ELSE Return(Inc(_local_dict(s, ns), "CACHE_PUT_LOCAL", 1), RetNone)
    ELSE Return(s, RetNone)

_local_cache_put(s, env, key, ns, value) ==
    IF s.ro
    THEN IF ~_is_same_app_context_if_set(s, env)
         THEN Raise(s, "AssertionError")
         ELSE IF s.lc = NoCache
         THEN Raise(s, "AttributeError")
         ELSE LET s1 == _local_dict(s, ns)
                  s2 == [s1 EXCEPT !.lc = DictCache(DictPut(
                             s1.lc.d, ns, DictPut(s1.lc.d[ns], key, value)))]
              IN  Return(Inc(s2, "CACHE_PUT_LOCAL", 1), RetNone)
    ELSE Return(s, RetNone)

\* The loop of _local_cache_get_multi from position i of keys on, with the
\* values collected so far.
RECURSIVE _local_cache_get_multi_loop(_, _, _, _, _, _)
_local_cache_get_multi_loop(s, env, keys, ns, i, values) ==
    IF i > Len(keys) THEN Return(s, <<TRUE, values>>)
    ELSE LET r == _local_cache_get(s, env, keys[i], ns)
         IN  IF r.exc # NoneVal THEN r
             ELSE IF ~r.ret[1] THEN Return(r.s, <<FALSE, <<>>>>)
             ELSE _local_cache_get_multi_loop(
                      r.s, env, keys, ns, i + 1, Append(values, r.ret[2]))

\* Returns ret = <<is_cached, values>>, values a list.
_local_cache_get_multi(s, env, keys, ns) ==
    IF s.ro
    THEN IF ~_is_same_app_context_if_set(s, env)
         THEN Raise(s, "AssertionError")
         ELSE _local_cache_get_multi_loop(s, env, keys, ns, 1, <<>>)
    ELSE Return(s, <<FALSE, <<>>>>)

\* The loop of _local_cache_put_multi over the items of values not yet put.
RECURSIVE _local_cache_put_multi_loop(_, _, _, _, _)
_local_cache_put_multi_loop(s, env, values, ns, todo) ==
    IF todo = {} THEN Return(s, RetNone)
    ELSE LET key == CHOOSE k \in todo : TRUE
             r == _local_cache_put(s, env, key, ns, values[key])
         IN  IF r.exc # NoneVal THEN r
             ELSE _local_cache_put_multi_loop(
                      r.s, env, values, ns, todo \ {key})

_local_cache_put_multi(s, env, values, ns) ==
    IF s.ro
    THEN IF ~_is_same_app_context_if_set(s, env)
         THEN Raise(s, "AssertionError")
         ELSE _local_cache_put_multi_loop(s, env, values, ns, DOMAIN values)
    ELSE Return(s, RetNone)

(* ------------------------------------------------------------------ *)
(* MemcacheManager: the public operations                              *)
(* ------------------------------------------------------------------ *)

get_namespace(env) ==
    IF env.namespace # "" THEN env.namespace ELSE DEFAULT_NAMESPACE_NAME

\* Mutant: the namespace argument is ignored, every call goes to the
\* current namespace.
_get_namespace_ignores_argument(env, namespace) == get_namespace(env)

_get_namespace(env, namespace) ==
    IF namespace # NoneVal THEN namespace ELSE get_namespace(env)

\* Mutant: get does not look at CAN_USE_MEMCACHE.
get_ignores_flag(s, env, key, namespace) ==
    LET _namespace == _get_namespace(env, namespace)
        l == _local_cache_get(s, env, key, _namespace)
        m == memcache_get(l.s, env, key, _namespace)
        s1 == IF m.ret # NoneVal THEN Inc(m.s, "CACHE_HIT", 1)
              ELSE Inc(m.s, "CACHE_MISS", 1)
        p == _local_cache_put(s1, env, key, _namespace, m.ret)
    IN  IF l.exc # NoneVal THEN l
        ELSE IF l.ret[1] THEN Return(l.s, RetValue(l.ret[2]))
        ELSE IF m.exc # NoneVal THEN m
        ELSE IF p.exc # NoneVal THEN p
        ELSE Return(p.s, RetValue(m.ret))

get(s, env, key, namespace) ==
    IF ~env.can THEN Return(s, RetValue(NoneVal))
    ELSE
    LET _namespace == _get_namespace(env, namespace)
        l == _local_cache_get(s, env, key, _namespace)
        m == memcache_get(l.s, env, key, _namespace)
        s1 == IF m.ret # NoneVal THEN Inc(m.s, "CACHE_HIT", 1)
              ELSE Inc(m.s, "CACHE_MISS", 1)
        p == _local_cache_put(s1, env, key, _namespace, m.ret)
    IN  IF l.exc # NoneVal THEN l
        ELSE IF l.ret[1] THEN Return(l.s, RetValue(l.ret[2]))
        ELSE IF m.exc # NoneVal THEN m
        ELSE IF p.exc # NoneVal THEN p
        ELSE Return(p.s, RetValue(m.ret))

\* Mutant: get_multi does not look at CAN_USE_MEMCACHE.
get_multi_ignores_flag(s, env, keys, namespace) ==
    LET _namespace == _get_namespace(env, namespace)
        l == _local_cache_get_multi(s, env, keys, _namespace)
        m == memcache_get_multi(l.s, env, keys, _namespace)
        hits == Cardinality({k \in DOMAIN m.ret : m.ret[k] # NoneVal})
        misses == Cardinality({k \in DOMAIN m.ret : m.ret[k] = NoneVal})
        s1 == Inc(Inc(m.s, "CACHE_HIT", hits), "CACHE_MISS", misses)
        p == _local_cache_put_multi(s1, env, m.ret, _namespace)
    IN  IF l.exc # NoneVal THEN l
        ELSE IF l.ret[1] THEN Return(l.s, RetList(l.ret[2]))
        ELSE IF m.exc # NoneVal THEN m
        ELSE IF p.exc # NoneVal THEN p
        ELSE Return(p.s, RetDict(m.ret))

get_multi(s, env, keys, namespace) ==
    IF ~env.can THEN Return(s, RetDict(EmptyDict))
    ELSE
    LET _namespace == _get_namespace(env, namespace)
        l == _local_cache_get_multi(s, env, keys, _namespace)
        m == memcache_get_multi(l.s, env, keys, _namespace)
        hits == Cardinality({k \in DOMAIN m.ret : m.ret[k] # NoneVal})
        misses == Cardinality({k \in DOMAIN m.ret : m.ret[k] = NoneVal})
        s1 == Inc(Inc(m.s, "CACHE_HIT", hits), "CACHE_MISS", misses)
        p == _local_cache_put_multi(s1, env, m.ret, _namespace)
    IN  IF l.exc # NoneVal THEN l
        ELSE IF l.ret[1] THEN Return(l.s, RetList(l.ret[2]))
        ELSE IF m.exc # NoneVal THEN m
        ELSE IF p.exc # NoneVal THEN p
        ELSE Return(p.s, RetDict(m.ret))

\* The body of set's try block.
set_try(s, env, key, value, namespace) ==
    IF env.can
    THEN IF SizeOf(value) > MEMCACHE_MAX
         THEN Return(Inc(s, "CACHE_PUT_TOO_BIG", 1), RetNone)
         ELSE LET s1 == Inc(s, "CACHE_PUT", 1)
                  _namespace == _get_namespace(env, namespace)
                  m == memcache_set(s1, env, key, value, _namespace)
              IN  IF m.exc # NoneVal THEN m
                  ELSE _local_cache_put(m.s, env, key, _namespace, value)
    ELSE Return(s, RetNone)

\* try: ... except: logging.exception(...); return None
set(s, env, key, value, namespace) ==
    Return(set_try(s, env, key, value, namespace).s, RetNone)

\* sum(sys.getsizeof(key) + sys.getsizeof(value) for the items of mapping)
RECURSIVE MappingSize(_, _)
MappingSize(mapping, todo) ==
    IF todo = {} THEN 0
    ELSE LET k == CHOOSE x \in todo : TRUE
         IN  SizeOf(k) + SizeOf(mapping[k]) + MappingSize(mapping, todo \ {k})

\* The body of set_multi's try block.
set_multi_try(s, env, mapping, namespace) ==
    IF env.can
    THEN IF mapping = EmptyDict THEN Return(s, RetNone)
         ELSE IF MappingSize(mapping, DOMAIN mapping) > MEMCACHE_MULTI_MAX
         THEN Return(Inc(s, "CACHE_PUT_TOO_BIG", 1), RetNone)
         ELSE LET s1 == Inc(s, "CACHE_PUT", 1)
                  _namespace == _get_namespace(env, namespace)
                  m == memcache_set_multi(s1, env, mapping, _namespace)
              IN  IF m.exc # NoneVal THEN m
                  ELSE _local_cache_put_multi(m.s, env, mapping, _namespace)
    ELSE Return(s, RetNone)

set_multi(s, env, mapping, namespace) ==
    Return(set_multi_try(s, env, mapping, namespace).s, RetNone)

\* Mutant: delete does not look at the snapshot.
delete_without_assert(s, env, key, namespace) ==
    IF env.can
    THEN memcache_delete(Inc(s, "CACHE_DELETE", 1), env, key,
                         _get_namespace(env, namespace))
    ELSE Return(s, RetNone)

delete(s, env, key, namespace) ==
    IF s.ro THEN Raise(s, "AssertionError")
    ELSE IF env.can
    THEN memcache_delete(Inc(s, "CACHE_DELETE", 1), env, key,
                         _get_namespace(env, namespace))
    ELSE Return(s, RetNone)

delete_multi(s, env, key_list, namespace) ==
    IF s.ro THEN Raise(s, "AssertionError")
    ELSE IF env.can
    THEN memcache_delete_multi(Inc(s, "CACHE_DELETE", Len(key_list)), env,
                               key_list, _get_namespace(env, namespace))
    ELSE Return(s, RetNone)

\* The value memcache.incr returns is dropped.
incr(s, env, key, delta, namespace) ==
    IF env.can
    THEN LET m == memcache_incr(s, env, key, delta,
                                _get_namespace(env, namespace))
         IN  IF m.exc # NoneVal THEN m ELSE Return(m.s, RetNone)
    ELSE Return(s, RetNone)

(* ------------------------------------------------------------------ *)
(* Python values of BaseJsonDao                                        *)
(* ------------------------------------------------------------------ *)

\* NO_OBJECT = {}: the empty dict, written as Python writes it.  Every
\* cached value of the model is the written form of a Python value.
NO_OBJECT == "{}"

\* dto.dict: the JSON-serializable payloads of the model, {} and {'x': 1}.
DictX(v) == [k \in {"x"} |-> v]

PayloadDicts == {EmptyDict, DictX(1)}

\* transforms.dumps(dto.dict): the JSON text, a Python str.
transforms_dumps(d) ==
    IF DOMAIN d = {} THEN "'{}'"
    ELSE "'{\"x\": " \o DecimalStrings[d["x"]] \o "}'"

JsonTexts == {transforms_dumps(d) : d \in PayloadDicts}

\* The dict each JSON text stands for.
JsonValues ==
    [text \in JsonTexts |->
         CHOOSE d \in PayloadDicts : transforms_dumps(d) = text]

\* transforms.loads(text)
transforms_loads(text) == JsonValues[text]

\* An instance of cls.ENTITY with its key (None before the first put of an
\* entity with an auto-generated id) and its data property.
Entity(key, data) == "Entity(" \o key \o ", " \o data \o ")"

\* Every entity of the model.
Entities == {Entity(k, data) : k \in Ids \cup {NoneVal}, data \in JsonTexts}

\* The key and the data of each entity.
EntityProperties ==
    [entity \in Entities |->
         CHOOSE p \in [key : Ids \cup {NoneVal}, data : JsonTexts] :
             Entity(p.key, p.data) = entity]

\* entity.key().id_or_name()
entity_key(entity) == EntityProperties[entity].key

\* entity.data
entity_data(entity) == EntityProperties[entity].data

\* cls.DTO(obj_id, dict)
DTO(id, dict) == [id |-> id, dict |-> dict]

\* The order in which the model writes and scans ids.
IdOrder == <<"1", "2">>

\* The items of the dict {dto.id: dto} from position i of IdOrder on.
RECURSIVE DictItems(_, _)
DictItems(m, i) ==
    IF i > Len(IdOrder) THEN ""
    ELSE (IF IdOrder[i] \in DOMAIN m
          THEN IdOrder[i] \o ": DTO(" \o m[IdOrder[i]].id \o ", "
                   \o transforms_dumps(m[IdOrder[i]].dict) \o "), "
          ELSE "")
         \o DictItems(m, i + 1)

\* The dict {dto.id: dto} as written; the empty one is written as NO_OBJECT.
DictOfDtos(m) == "{" \o DictItems(m, 1) \o "}"

\* Every dict {dto.id: dto} over the ids and payloads of the model.
DtoDicts ==
    UNION {{[i \in D |-> DTO(i, f[i])] : f \in [D -> PayloadDicts]} :
               D \in SUBSET Ids}

\* The dict each written form stands for.
WrittenDtoDicts ==
    [text \in {DictOfDtos(m) : m \in DtoDicts} |->
         CHOOSE m \in DtoDicts : DictOfDtos(m) = text]

\* The dict a written form stands for.
ReadDictOfDtos(text) == WrittenDtoDicts[text]

\* Values returned by the DAO: a DTO, a list of DTOs and Nones, the values
\* of a dict of DTOs (in no particular order).
RetDto(dto) == [kind |-> "dto", id |-> dto.id, dict |-> dto.dict]

RetValues(m) == [kind |-> "values", items |-> {RetDto(m[i]) : i \in DOMAIN m}]

(* ------------------------------------------------------------------ *)
(* The datastore (google.appengine.ext.db)                             *)
(* ------------------------------------------------------------------ *)

\* The datastore held an entity under the id and it was deleted: the id is
\* never allocated again.
Deleted == "deleted"

\* One call of the datastore, as logged in s.dscalls.
DsCall(op, ids) == [op |-> op, ids |-> ids]

\* The datastore call is logged in s.dscalls, and in s.dsat the number of
\* requests made to the distributed cache before it.
LogDs(s, call) ==
    [s EXCEPT !.dscalls = Append(@, call), !.dsat = Append(@, Len(s.calls))]

\* The datastore fails the calls of kind op made by this DAO call.
DsFails(env, op) == op \in env.failops

Stored(s, id) == s.ds[id] \notin {Missing, Deleted}

\* The entity the datastore holds under id, None when there is none.
StoredEntity(s, id) ==
    IF Stored(s, id) THEN Entity(id, s.ds[id]) ELSE NoneVal

\* entity_class.get_by_id(id) / entity_class.get_by_key_name(name): raises
\* when the read fails.
db_get_by_key(s, env, id) ==
    IF DsFails(env, "db.get")
    THEN Raise(LogDs(s, DsCall("get", <<id>>)), "datastore_errors.Error")
    ELSE Return(LogDs(s, DsCall("get", <<id>>)), StoredEntity(s, id))

\* db.get(keys): one batched fetch, a list aligned with keys; raises when
\* the read fails.
db_get(s, env, ids) ==
    IF DsFails(env, "db.get")
    THEN Raise(LogDs(s, DsCall("get_multi", ids)), "datastore_errors.Error")
    ELSE Return(LogDs(s, DsCall("get_multi", ids)),
                [i \in 1..Len(ids) |-> StoredEntity(s, ids[i])])

\* The ids the datastore never allocated.
FreeIds(s) == {i \in Ids : s.ds[i] = Missing}

\* The id the datastore allocates to the next entity put without one.
AllocateId(s) ==
    IdOrder[CHOOSE n \in 1..Len(IdOrder) :
                /\ IdOrder[n] \in FreeIds(s)
                /\ \A m \in 1..(n - 1) : IdOrder[m] \notin FreeIds(s)]

\* The write of one entity, without the log: the state and the entity with
\* its key.
PutOne(s, entity) ==
    LET key == IF entity_key(entity) = NoneVal THEN AllocateId(s)
               ELSE entity_key(entity)
    IN  [s |-> [s EXCEPT !.ds[key] = entity_data(entity)],
         entity |-> Entity(key, entity_data(entity))]

\* entity.put(): raises, the datastore unchanged, when the write fails.
entity_put(s, env, entity) ==
    LET p == PutOne(s, entity)
    IN  IF DsFails(env, "db.put")
        THEN Raise(LogDs(s, DsCall("put", <<entity_key(entity)>>)),
                   "datastore_errors.Error")
        ELSE Return(LogDs(p.s, DsCall("put", <<entity_key(p.entity)>>)),
                    p.entity)

\* The writes of db.put from position i of entities on, with the entities
\* written so far.
RECURSIVE PutAll(_, _, _, _)
PutAll(s, entities, i, done) ==
    IF i > Len(entities) THEN [s |-> s, entities |-> done]
    ELSE LET p == PutOne(s, entities[i])
         IN  PutAll(p.s, entities, i + 1, Append(done, p.entity))

\* db.put(entities): one batched write; returns the entities with their
\* keys; raises, the datastore unchanged, when the write fails.
db_put(s, env, entities) ==
    LET p == PutAll(s, entities, 1, <<>>)
        Keys_(l) == [i \in 1..Len(l) |-> entity_key(l[i])]
    IN  IF DsFails(env, "db.put")
        THEN Raise(LogDs(s, DsCall("put_multi", Keys_(entities))),
                   "datastore_errors.Error")
        ELSE Return(LogDs(p.s, DsCall("put_multi", Keys_(p.entities))),
                    p.entities)

\* entity.delete(): raises, the datastore unchanged, when the write fails.
entity_delete(s, env, entity) ==
    IF DsFails(env, "db.delete")
    THEN Raise(LogDs(s, DsCall("delete", <<entity_key(entity)>>)),
               "datastore_errors.Error")
    ELSE Return(LogDs([s EXCEPT !.ds[entity_key(entity)] = Deleted],
                      DsCall("delete", <<entity_key(entity)>>)),
                RetNone)

\* The ids of the stored entities that follow position prev_cursor of
\* IdOrder (0 for the cursor None), in the order of the datastore.
IdsAfter(s, prev_cursor) ==
    LET IsStored(id) == Stored(s, id)
    IN  SelectSeq(SubSeq(IdOrder, prev_cursor + 1, Len(IdOrder)), IsStored)

\* cls.ENTITY.all().with_cursor(prev_cursor).run(): every entity after the
\* cursor; the call is logged with the ids it returned; raises when the
\* query fails.
query_run(s, env, prev_cursor) ==
    IF DsFails(env, "query.run")
    THEN Raise(LogDs(s, DsCall("scan", <<>>)), "datastore_errors.Error")
    ELSE Return(LogDs(s, DsCall("scan", IdsAfter(s, prev_cursor))),
                [i \in 1..Len(IdsAfter(s, prev_cursor)) |->
                     StoredEntity(s, IdsAfter(s, prev_cursor)[i])])

\* query.cursor() after the entities were iterated: the position in IdOrder
\* of the last one, prev_cursor when there was none.
query_cursor(prev_cursor, entities) ==
    IF Len(entities) = 0 THEN prev_cursor
    ELSE CHOOSE n \in 1..Len(IdOrder) :
             IdOrder[n] = entity_key(entities[Len(entities)])

(* ------------------------------------------------------------------ *)
(* BaseJsonDao                                                         *)
(* ------------------------------------------------------------------ *)

\* The request environment of a DAO call: that of its MemcacheManager
\* calls, the backend failing the requests of the operations in failops, and
\* the key strategy of the DAO class.
DaoEnv(mns, failops) ==
    [course |-> currentCourse, can |-> CAN_USE_MEMCACHE, namespace |-> mns,
     fail |-> FALSE, failops |-> failops, key_type |-> ENTITY_KEY_TYPE]

\* The environment of the MemcacheManager call op made by a DAO call.
On(env, op) == [env EXCEPT !.fail = op \in env.failops]

\* cls.ENTITY_KEY_TYPE.get_entity_by_key(cls.ENTITY, key)
get_entity_by_key(s, env, key) == db_get_by_key(s, env, key)

\* cls.ENTITY_KEY_TYPE.new_entity(cls.ENTITY, key): the id is generated by
\* the first put under EntityKeyTypeId, the key name is key otherwise.
new_entity(env, key) ==
    IF env.key_type = "EntityKeyTypeId" THEN Entity(NoneVal, "'{}'")
    ELSE Entity(key, "'{}'")

\* cls.POST_LOAD_HOOKS of the DAO class of the model: one registered hook,
\* which records the list of DTOs it is passed and leaves them as they are.
POST_LOAD_HOOKS == <<"record_dto_list">>

\* hook(dto_list) for the hooks from position i of POST_LOAD_HOOKS on: each
\* call is logged in s.hookcalls with the hook and the ids of the DTOs.
RECURSIVE ApplyHooks(_, _, _)
ApplyHooks(s, dto_list, i) ==
    IF i > Len(POST_LOAD_HOOKS) THEN s
    ELSE ApplyHooks(
             [s EXCEPT !.hookcalls =
                  Append(@, [hook |-> POST_LOAD_HOOKS[i],
                             ids |-> [j \in 1..Len(dto_list) |->
                                          dto_list[j].id]])],
             dto_list, i + 1)

\* cls._maybe_apply_post_hooks(dto_list); the class has POST_LOAD_HOOKS.
_maybe_apply_post_hooks(s, dto_list) == ApplyHooks(s, dto_list, 1)

\* Mutant: the loop of get_all_iter ends after its first page.
get_all_iter_page_ends_after_first(q, env, prev_cursor, dtos) ==
    IF q.exc # NoneVal THEN q
    ELSE
    Return(q.s, dtos \o [i \in 1..Len(q.ret) |->
                            DTO(entity_key(q.ret[i]),
                                transforms_loads(entity_data(q.ret[i])))])

\* The loop of get_all_iter from the cursor prev_cursor on, with the DTOs
\* yielded so far; get_all_iter_page continues it after the query q of the
\* iteration: the loop ends when the query returned no record.
RECURSIVE get_all_iter_from(_, _, _, _)
RECURSIVE get_all_iter_page(_, _, _, _)
get_all_iter_from(s, env, prev_cursor, dtos) ==
    get_all_iter_page(query_run(s, env, prev_cursor), env, prev_cursor, dtos)

get_all_iter_page(q, env, prev_cursor, dtos) ==
    IF q.exc # NoneVal THEN q
    ELSE IF Len(q.ret) = 0 THEN Return(q.s, dtos)
    ELSE get_all_iter_from(
             q.s, env, query_cursor(prev_cursor, q.ret),
             dtos \o [i \in 1..Len(q.ret) |->
                         DTO(entity_key(q.ret[i]),
                             transforms_loads(entity_data(q.ret[i])))])

\* Returns the list of the DTOs the generator yields.
get_all_iter(s, env) == get_all_iter_from(s, env, 0, <<>>)

\* {dto.id: dto for dto in dtos}
DictById(dtos) ==
    [id \in {dtos[i].id : i \in 1..Len(dtos)} |->
         dtos[CHOOSE i \in 1..Len(dtos) :
                  /\ dtos[i].id = id
                  /\ \A j \in (i + 1)..Len(dtos) : dtos[j].id # id]]

\* get_all_mapped after the scan it of the datastore.
get_all_mapped_scanned(it, env) ==
    IF it.exc # NoneVal THEN it
    ELSE
    Return(set(it.s, On(env, "set"), _memcache_all_key,
               IF Len(it.ret) # 0 THEN DictOfDtos(DictById(it.ret))
               ELSE NO_OBJECT,
               NoneVal).s,
           DictById(it.ret))

\* get_all_mapped after the read g of the cache.
get_all_mapped_cached(g, env) ==
    IF g.exc # NoneVal THEN g
    ELSE IF g.ret.v # NoneVal /\ g.ret.v # NO_OBJECT
    THEN Return(g.s, ReadDictOfDtos(g.ret.v))
    ELSE get_all_mapped_scanned(get_all_iter(g.s, env), env)

\* Returns the dict {dto.id: dto}.
get_all_mapped(s, env) ==
    get_all_mapped_cached(
        get(s, On(env, "get"), _memcache_all_key, NoneVal), env)

\* .values() of the result r of get_all_mapped.
get_all_values(r) ==
    IF r.exc # NoneVal THEN r ELSE Return(r.s, RetValues(r.ret))

get_all(s, env) == get_all_values(get_all_mapped(s, env))

\* Mutant: a record that is not found is not remembered in the cache.
_load_entity_without_negative_caching(s, env, obj_id) ==
    IF obj_id = NoneVal THEN Return(s, NoneVal)
    ELSE
    LET memcache_key == _memcache_key(obj_id)
        g == get(s, On(env, "get"), memcache_key, NoneVal)
        d == get_entity_by_key(g.s, env, obj_id)
        w == IF d.ret # NoneVal
             THEN set(d.s, On(env, "set"), memcache_key, d.ret, NoneVal)
             ELSE d
    IN  IF g.exc # NoneVal THEN g
        ELSE IF NO_OBJECT = g.ret.v THEN Return(g.s, NoneVal)
        ELSE IF g.ret.v = NoneVal
        THEN IF d.exc # NoneVal THEN d ELSE Return(w.s, d.ret)
        ELSE Return(g.s, g.ret.v)

\* Mutant: an unset id is looked up in the datastore.
_load_entity_looks_up_none(s, env, obj_id) ==
    IF obj_id = NoneVal
    THEN Return(LogDs(s, DsCall("get", <<obj_id>>)), NoneVal)
    ELSE
    LET memcache_key == _memcache_key(obj_id)
        g == get(s, On(env, "get"), memcache_key, NoneVal)
        d == get_entity_by_key(g.s, env, obj_id)
        w == set(d.s, On(env, "set"), memcache_key,
                 IF d.ret # NoneVal THEN d.ret ELSE NO_OBJECT, NoneVal)
    IN  IF g.exc # NoneVal THEN g
        ELSE IF NO_OBJECT = g.ret.v THEN Return(g.s, NoneVal)
        ELSE IF g.ret.v = NoneVal
        THEN IF d.exc # NoneVal THEN d ELSE Return(w.s, d.ret)
        ELSE Return(g.s, g.ret.v)

\* _load_entity after the read d of the datastore.
_load_entity_fetched(d, env, obj_id) ==
    IF d.exc # NoneVal THEN d
    ELSE
    Return(set(d.s, On(env, "set"), _memcache_key(obj_id),
               IF d.ret # NoneVal THEN d.ret ELSE NO_OBJECT, NoneVal).s,
           d.ret)

\* _load_entity after the read g of the cache.
_load_entity_cached(g, env, obj_id) ==
    IF g.exc # NoneVal THEN g
    ELSE IF NO_OBJECT = g.ret.v THEN Return(g.s, NoneVal)
    ELSE IF g.ret.v = NoneVal
    THEN _load_entity_fetched(get_entity_by_key(g.s, env, obj_id), env,
                              obj_id)
    ELSE Return(g.s, g.ret.v)

\* Returns the entity, None when there is none.
_load_entity(s, env, obj_id) ==
    IF obj_id = NoneVal THEN Return(s, NoneVal)
    ELSE _load_entity_cached(
             get(s, On(env, "get"), _memcache_key(obj_id), NoneVal), env,
             obj_id)

\* load after _load_entity, with result e.
load_dto(e, obj_id) ==
    IF e.exc # NoneVal THEN e
    ELSE IF e.ret # NoneVal
    THEN Return(_maybe_apply_post_hooks(
                    e.s,
                    <<DTO(obj_id, transforms_loads(entity_data(e.ret)))>>),
                RetDto(DTO(obj_id, transforms_loads(entity_data(e.ret)))))
    ELSE Return(e.s, RetNone)

\* Mutant: an entity with an empty payload counts as no entity.
load_empty_payload_is_none(s, env, obj_id) ==
    LET e == _load_entity(s, env, obj_id)
    IN  IF e.exc = NoneVal /\ e.ret # NoneVal
           /\ transforms_loads(entity_data(e.ret)) = EmptyDict
        THEN Return(e.s, RetNone)
        ELSE load_dto(e, obj_id)

load(s, env, obj_id) == load_dto(_load_entity(s, env, obj_id), obj_id)

\* memcache_key not in memcache_entities, for the dict or the list that
\* get_multi returned.
NotIn(memcache_key, memcache_entities) ==
    IF memcache_entities.kind = "dict"
    THEN memcache_key \notin DOMAIN memcache_entities.items
    ELSE \A i \in 1..Len(memcache_entities.items) :
             memcache_entities.items[i] # memcache_key

\* a_list if a_list: the list is not empty.
NonEmpty(a_list) == Len(a_list) > 0

\* bulk_load from "put into memcache" on: the state after it.
bulk_load_cache(s, has_datastore_entities, memcache_update, env) ==
    IF has_datastore_entities
    THEN set_multi(s, On(env, "set_multi"), memcache_update, NoneVal).s
    ELSE s

\* bulk_load from "weave the results together" on: memcache_entities is
\* what get_multi returned, d the fetch of datastore_keys.
bulk_load_weave(memcache_entities, datastore_keys, d, env, obj_id_list) ==
    IF d.exc # NoneVal THEN d
    ELSE
    LET datastore_entities ==
            [obj_id \in Range(datastore_keys) |->
                 d.ret[CHOOSE i \in 1..Len(datastore_keys) :
                           datastore_keys[i] = obj_id]]
        FromStore(obj_id) ==
            IF obj_id \in DOMAIN datastore_entities
            THEN datastore_entities[obj_id] ELSE NoneVal
        ret == [i \in 1..Len(obj_id_list) |->
                    LET obj_id == obj_id_list[i]
                    IN  IF FromStore(obj_id) # NoneVal
                        THEN RetDto(DTO(obj_id, transforms_loads(
                                 entity_data(FromStore(obj_id)))))
                        ELSE IF NotIn(_memcache_key(obj_id),
                                      memcache_entities)
                        THEN RetNone
                        ELSE LET entity ==
                                     memcache_entities.items[
                                         _memcache_key(obj_id)]
                             IN  IF NO_OBJECT = entity THEN RetNone
                                 ELSE RetDto(DTO(obj_id, transforms_loads(
                                          entity_data(entity))))]
        memcache_update ==
            [k \in {_memcache_key(i) : i \in Range(datastore_keys)} |->
                 LET obj_id == CHOOSE i \in Range(datastore_keys) :
                                   _memcache_key(i) = k
                 IN  IF FromStore(obj_id) # NoneVal THEN FromStore(obj_id)
                     ELSE NO_OBJECT]
        IsFetched(obj_id) == FromStore(obj_id) # NoneVal
        dtos_for_post_hooks ==
            [i \in 1..Len(SelectSeq(obj_id_list, IsFetched)) |->
                 LET obj_id == SelectSeq(obj_id_list, IsFetched)[i]
                 IN  DTO(obj_id,
                         transforms_loads(entity_data(FromStore(obj_id))))]
    IN  Return(bulk_load_cache(
                   _maybe_apply_post_hooks(d.s, dtos_for_post_hooks),
                   DOMAIN datastore_entities # {}, memcache_update, env),
               RetList(ret))

\* bulk_load from "fetch missing from datastore" on, with the result g of
\* get_multi.
bulk_load_fetch(g, env, obj_id_list) ==
    LET IsMissing(obj_id) == NotIn(_memcache_key(obj_id), g.ret)
        datastore_keys == SelectSeq(obj_id_list, IsMissing)
    IN  IF g.exc # NoneVal THEN g
        ELSE bulk_load_weave(
                 g.ret, datastore_keys,
                 IF NonEmpty(datastore_keys)
                 THEN db_get(g.s, env, datastore_keys)
                 ELSE Return(g.s, <<>>),
                 env, obj_id_list)

bulk_load(s, env, obj_id_list) ==
    bulk_load_fetch(
        get_multi(s, On(env, "get_multi"),
                  [i \in 1..Len(obj_id_list) |->
                       _memcache_key(obj_id_list[i])],
                  NoneVal),
        env, obj_id_list)

\* The entity _load_entity returned is the object the local map holds
\* under its key: during a snapshot get and set hand the local map the
\* object itself (_dict[key] = value), not a copy.
IsLocalObject(s, env, entity) ==
    /\ env.can
    /\ s.ro
    /\ s.lc # NoCache
    /\ get_namespace(env) \in DOMAIN s.lc.d
    /\ _memcache_key(entity_key(entity)) \in DOMAIN s.lc.d[get_namespace(env)]
    /\ s.lc.d[get_namespace(env)][_memcache_key(entity_key(entity))] = entity

\* entity.data = data: the assignment changes the object, and so the entry
\* of the local map when the entity is the object held there.
set_entity_data(s, env, entity, data) ==
    IF IsLocalObject(s, env, entity)
    THEN [s EXCEPT !.lc.d[get_namespace(env)][
                       _memcache_key(entity_key(entity))] =
                       Entity(entity_key(entity), data)]
    ELSE s

\* _create_if_necessary after _load_entity, with result e.
create_entity(e, env, dto) ==
    IF e.exc # NoneVal THEN e
    ELSE IF e.ret = NoneVal
    THEN Return(e.s, Entity(entity_key(new_entity(env, dto.id)),
                            transforms_dumps(dto.dict)))
    ELSE Return(set_entity_data(e.s, env, e.ret, transforms_dumps(dto.dict)),
                Entity(entity_key(e.ret), transforms_dumps(dto.dict)))

\* Returns the entity to put.
_create_if_necessary(s, env, dto) ==
    create_entity(_load_entity(s, env, dto.id), env, dto)

\* save from the set that republishes the entity on, after the delete d of
\* the get_all entry.
save_republish(d, entity, env) ==
    IF d.exc # NoneVal THEN d
    ELSE Return(set(d.s, On(env, "set"), _memcache_key(entity_key(entity)),
                    entity, NoneVal).s,
                RetValue(entity_key(entity)))

\* Mutant: save leaves the get_all entry in the cache.
save_invalidate_keeps_get_all(p, env) ==
    IF p.exc # NoneVal THEN p
    ELSE save_republish(Return(p.s, RetNone), p.ret, env)

\* save after entity.put(), with result p.
save_invalidate(p, env) ==
    IF p.exc # NoneVal THEN p
    ELSE save_republish(
             delete(p.s, On(env, "delete"), _memcache_all_key, NoneVal),
             p.ret, env)

\* Mutant: the get_all entry is deleted before entity.put().
save_put_invalidates_first(c, env) ==
    LET d == delete(c.s, On(env, "delete"), _memcache_all_key, NoneVal)
        p == entity_put(d.s, env, c.ret)
    IN  IF c.exc # NoneVal THEN c
        ELSE IF d.exc # NoneVal THEN d
        ELSE IF p.exc # NoneVal THEN p
        ELSE save_republish(Return(p.s, RetNone), p.ret, env)

\* save after _create_if_necessary, with result c.
save_put(c, env) ==
    IF c.exc # NoneVal THEN c
    ELSE save_invalidate(entity_put(c.s, env, c.ret), env)

\* Returns the id (or key name) of the entity.
save(s, env, dto) == save_put(_create_if_necessary(s, env, dto), env)

\* The first loop of save_all over dtos from position i on, with the
\* entities built so far; save_all_created continues it after
\* _create_if_necessary, with result c.
RECURSIVE save_all_create(_, _, _, _, _)
RECURSIVE save_all_created(_, _, _, _, _)
save_all_create(s, env, dtos, i, entities) ==
    IF i > Len(dtos) THEN Return(s, entities)
    ELSE save_all_created(_create_if_necessary(s, env, dtos[i]), env, dtos,
                          i, entities)

save_all_created(c, env, dtos, i, entities) ==
    IF c.exc # NoneVal THEN c
    ELSE save_all_create(c.s, env, dtos, i + 1, Append(entities, c.ret))

\* The loop of save_all that republishes the entities from position i on.
RECURSIVE save_all_set(_, _, _, _)
save_all_set(s, env, entities, i) ==
    IF i > Len(entities) THEN s
    ELSE save_all_set(
             set(s, On(env, "set"), _memcache_key(entity_key(entities[i])),
                 entities[i], NoneVal).s,
             env, entities, i + 1)

\* key.id(): the numeric id of a key, None for a key with a name.
key_id(env, key) ==
    IF env.key_type = "EntityKeyTypeId" THEN key ELSE NoneVal

\* save_all from the loop that republishes the entities on, after the
\* delete d of the get_all entry.
save_all_republish(d, entities, env) ==
    IF d.exc # NoneVal THEN d
    ELSE Return(save_all_set(d.s, env, entities, 1),
                RetList([i \in 1..Len(entities) |->
                             key_id(env, entity_key(entities[i]))]))

\* save_all after db.put(entities), with result p.
save_all_invalidate(p, env) ==
    IF p.exc # NoneVal THEN p
    ELSE save_all_republish(
             delete(p.s, On(env, "delete"), _memcache_all_key, NoneVal),
             p.ret, env)

\* save_all after its first loop, with result c.
save_all_put(c, env) ==
    IF c.exc # NoneVal THEN c
    ELSE save_all_invalidate(db_put(c.s, env, c.ret), env)

\* Returns the list [key.id() for key in keys].
save_all(s, env, dtos) ==
    save_all_put(save_all_create(s, env, dtos, 1, <<>>), env)

\* BaseJsonDao.delete after the delete d1 of the get_all entry.
dao_delete_key(d1, entity, env) ==
    IF d1.exc # NoneVal THEN d1
    ELSE delete(d1.s, On(env, "delete"), _memcache_key(entity_key(entity)),
                NoneVal)

\* BaseJsonDao.delete after entity.delete(), with result x.
dao_delete_invalidate(x, entity, env) ==
    IF x.exc # NoneVal THEN x
    ELSE dao_delete_key(
             delete(x.s, On(env, "delete"), _memcache_all_key, NoneVal),
             entity, env)

\* BaseJsonDao.delete after _load_entity, with result e.
dao_delete_entity(e, env) ==
    IF e.exc # NoneVal THEN e
    ELSE IF e.ret = NoneVal THEN Raise(e.s, "AttributeError")
    ELSE dao_delete_invalidate(entity_delete(e.s, env, e.ret), e.ret, env)

\* BaseJsonDao.delete(dto)
dao_delete(s, env, dto) ==
    dao_delete_entity(_load_entity(s, env, dto.id), env)

(* ------------------------------------------------------------------ *)
(* StudentPropertyEntity                                               *)
(* ------------------------------------------------------------------ *)

\* The base class of the entity classes of models.py.
ClassBases ==
    [Student |-> "BaseEntity", StudentPropertyEntity |-> "BaseEntity",
     BaseEntity |-> "db.Model"]

\* issubclass(class, type)
RECURSIVE IsSubclass(_, _)
IsSubclass(class, type) ==
    \/ class = type
    \/ class \in DOMAIN ClassBases /\ IsSubclass(ClassBases[class], type)

\* super(type, self) for an instance of class: the class after type in the
\* method resolution order; Python raises TypeError when self is not an
\* instance of type.
python_super(s, type, class) ==
    IF IsSubclass(class, type) THEN Return(s, ClassBases[type])
    ELSE Raise(s, "TypeError")

\* StudentPropertyEntity._memcache_key(key)
student_property_memcache_key(key) == "entity:student_property:" \o key

\* StudentPropertyEntity.put after the put p of the base class.
student_property_put_set(p, env) ==
    IF p.exc # NoneVal THEN p
    ELSE Return(set(p.s, On(env, "set"),
                    student_property_memcache_key(entity_key(p.ret)), p.ret,
                    NoneVal).s,
                RetValue(entity_key(p.ret)))

\* StudentPropertyEntity.put(self)
student_property_put(s, env, self) ==
    student_property_put_set(entity_put(s, env, self), env)

\* StudentPropertyEntity.delete after the delete x of the base class.
student_property_delete_key(x, env, self) ==
    IF x.exc # NoneVal THEN x
    ELSE delete(x.s, On(env, "delete"),
                student_property_memcache_key(entity_key(self)), NoneVal)

\* StudentPropertyEntity.delete after super(Student, self), with result b.
student_property_delete_super(b, env, self) ==
    IF b.exc # NoneVal THEN b
    ELSE student_property_delete_key(entity_delete(b.s, env, self), env, self)

\* StudentPropertyEntity.delete(self)
student_property_delete(s, env, self) ==
    student_property_delete_super(
        python_super(s, "Student", "StudentPropertyEntity"), env, self)

\* StudentPropertyEntity.get after the read d of the datastore.
student_property_get_fetched(d, env, key) ==
    IF d.exc # NoneVal THEN d
    ELSE Return(set(d.s, On(env, "set"), student_property_memcache_key(key),
                    IF d.ret # NoneVal THEN d.ret ELSE NO_OBJECT, NoneVal).s,
                RetValue(d.ret))

\* StudentPropertyEntity.get after the read g of the cache.
student_property_get_cached(g, env, key) ==
    IF g.exc # NoneVal THEN g
    ELSE IF NO_OBJECT = g.ret.v THEN Return(g.s, RetValue(NoneVal))
    ELSE IF g.ret.v = NoneVal
    THEN student_property_get_fetched(db_get_by_key(g.s, env, key), env, key)
    ELSE g

\* StudentPropertyEntity.get(student, property_name), key the key name
\* create_key makes of the two.
student_property_get(s, env, key) ==
    student_property_get_cached(
        get(s, On(env, "get"), student_property_memcache_key(key), NoneVal),
        env, key)

(* ------------------------------------------------------------------ *)
(* The specification: one action per call of a public method           *)
(* ------------------------------------------------------------------ *)

\* The record of a call: the method and, from its result r, the exception
\* that left it, the returned value, the requests made to memcache, to the
\* file system and to the datastore, and the counter increments.
Called(op, r) ==
    [op |-> op, exc |-> r.exc, ret |-> r.ret, calls |-> r.s.calls,
     fscalls |-> r.s.fscalls, dscalls |-> r.s.dscalls,
     dsat |-> r.s.dsat, hookcalls |-> r.s.hookcalls, ctr |-> r.s.ctr]

\* A step of the environment (no call of MemcacheManager).
NoCall(op) == Called(op, Return(Cur, RetNone))

\* The request-handling units that run DAO calls concurrently, and the
\* record of a unit that runs none: the method, the position in its code,
\* the argument, and the local variables entity and result.
Units == {"reader", "writer"}

Idle ==
    [op |-> "idle", pc |-> "idle", dto |-> DTO(NoneVal, EmptyDict),
     entity |-> NoneVal, result |-> <<>>, exc |-> NoneVal]

\* The class attributes, the file systems, the distributed cache and the
\* datastore after a call, or a step of a call, with result r.
Effects(r) ==
    /\ LOCAL_CACHE' = r.s.lc
    /\ IS_READONLY' = r.s.ro
    /\ READONLY_REENTRY_COUNT' = r.s.cnt
    /\ READONLY_APP_CONTEXT' = r.s.actx
    /\ fsReadonly' = r.s.fs
    /\ memcacheStore' = r.s.mc
    /\ datastore' = r.s.ds
    /\ UNCHANGED <<CAN_USE_MEMCACHE, currentCourse, ENTITY_KEY_TYPE>>

\* The same after a whole call made while no other call is in progress.
Commit(r) == Effects(r) /\ UNCHANGED units

\* The state after the module is loaded, for a DAO class with the given
\* key strategy, the given value of gcb_can_use_memcache and the given
\* entities in the datastore: no snapshot, empty cache, no call in progress.
StartWith(key_type, can_use_memcache, entities) ==
    /\ LOCAL_CACHE = NoCache
    /\ IS_READONLY = FALSE
    /\ READONLY_REENTRY_COUNT = 0
    /\ READONLY_APP_CONTEXT = NoneVal
    /\ CAN_USE_MEMCACHE = can_use_memcache
    /\ currentCourse = NoneVal
    /\ fsReadonly = [c \in Courses |-> FALSE]
    /\ memcacheStore = [n \in Namespaces |-> [k \in AllKeys |-> Missing]]
    /\ datastore = entities
    /\ ENTITY_KEY_TYPE = key_type
    /\ units = [u \in Units |-> Idle]
    /\ last = NoCall("init")

\* The same with an empty datastore.
Start(key_type, can_use_memcache) ==
    StartWith(key_type, can_use_memcache, [i \in Ids |-> Missing])

Init == Start("EntityKeyTypeId", TRUE)

\* begin_readonly(), explored up to nesting depth `depth`.
BeginReadonly(depth) ==
    /\ READONLY_REENTRY_COUNT < depth
    /\ LET r == begin_readonly(Cur, Env("", FALSE))
       IN  Commit(r) /\ last' = Called("begin_readonly", r)

EndReadonly ==
    LET r == end_readonly(Cur, Env("", FALSE))
    IN  Commit(r) /\ last' = Called("end_readonly", r)

ClearReadonlyCache ==
    LET r == Return(clear_readonly_cache(Cur), RetNone)
    IN  Commit(r) /\ last' = Called("clear_readonly_cache", r)

Get(key, namespace, mns, fail) ==
    LET r == get(Cur, Env(mns, fail), key, namespace)
    IN  Commit(r) /\ last' = Called("get", r)

GetMulti(keys, namespace, mns, fail) ==
    LET r == get_multi(Cur, Env(mns, fail), keys, namespace)
    IN  Commit(r) /\ last' = Called("get_multi", r)

Set(key, value, namespace, mns, fail) ==
    LET r == set(Cur, Env(mns, fail), key, value, namespace)
    IN  Commit(r) /\ last' = Called("set", r)

SetMulti(mapping, namespace, mns, fail) ==
    LET r == set_multi(Cur, Env(mns, fail), mapping, namespace)
    IN  Commit(r) /\ last' = Called("set_multi", r)

Delete(key, namespace, mns, fail) ==
    LET r == delete(Cur, Env(mns, fail), key, namespace)
    IN  Commit(r) /\ last' = Called("delete", r)

DeleteMulti(key_list, namespace, mns, fail) ==
    LET r == delete_multi(Cur, Env(mns, fail), key_list, namespace)
    IN  Commit(r) /\ last' = Called("delete_multi", r)

\* incr(key, delta), explored while the counter stays within MaxCounter.
Incr(key, delta, namespace, mns, fail) ==
    /\ LET old == memcacheStore[_get_namespace(Env(mns, fail), namespace)][key]
       IN  IsCounter(old) => CounterOf(old) + delta <= MaxCounter
    /\ LET r == incr(Cur, Env(mns, fail), key, delta, namespace)
       IN  Commit(r) /\ last' = Called("incr", r)

\* The call of method op, with result r, is made.
Apply(op, r) == Commit(r) /\ last' = Called(op, r)

Load(obj_id, mns, failops) ==
    /\ Apply("load", load(Cur, DaoEnv(mns, failops), obj_id))

BulkLoad(obj_id_list, mns, failops) ==
    /\ Apply("bulk_load", bulk_load(Cur, DaoEnv(mns, failops), obj_id_list))

\* The entities built by save / save_all get their ids from the ids the
\* model has left.
CanAllocate(c) ==
    c.exc = NoneVal =>
        Cardinality({i \in 1..Len(c.ret) : entity_key(c.ret[i]) = NoneVal})
            <= Cardinality(FreeIds(c.s))

\* save(dto); a DAO with key names is handed DTOs that have one.
Save(dto, mns, failops) ==
    /\ ENTITY_KEY_TYPE = "EntityKeyTypeName" => dto.id # NoneVal
    /\ CanAllocate(save_all_create(Cur, DaoEnv(mns, failops), <<dto>>, 1,
                                   <<>>))
    /\ Apply("save", save(Cur, DaoEnv(mns, failops), dto))

SaveAll(dtos, mns, failops) ==
    /\ ENTITY_KEY_TYPE = "EntityKeyTypeName" =>
           \A i \in 1..Len(dtos) : dtos[i].id # NoneVal
    /\ CanAllocate(save_all_create(Cur, DaoEnv(mns, failops), dtos, 1, <<>>))
    /\ Apply("save_all", save_all(Cur, DaoEnv(mns, failops), dtos))

DaoDelete(dto, mns, failops) ==
    /\ Apply("dao_delete", dao_delete(Cur, DaoEnv(mns, failops), dto))

GetAll(mns, failops) ==
    /\ Apply("get_all", get_all(Cur, DaoEnv(mns, failops)))

\* The next request handled by this process belongs to course c (or to no
\* course): sites.get_course_for_current_request() returns c from now on.
SetCurrentCourse(c) ==
    /\ c # currentCourse
    /\ currentCourse' = c
    /\ last' = NoCall("set_current_course")
    /\ UNCHANGED <<LOCAL_CACHE, IS_READONLY, READONLY_REENTRY_COUNT,
                   READONLY_APP_CONTEXT, CAN_USE_MEMCACHE, fsReadonly,
                   memcacheStore, datastore, ENTITY_KEY_TYPE, units>>

\* An administrator overrides the gcb_can_use_memcache property.
SetCanUseMemcache(b) ==
    /\ b # CAN_USE_MEMCACHE
    /\ CAN_USE_MEMCACHE' = b
    /\ last' = NoCall("set_can_use_memcache")
    /\ UNCHANGED <<LOCAL_CACHE, IS_READONLY, READONLY_REENTRY_COUNT,
                   READONLY_APP_CONTEXT, currentCourse, fsReadonly,
                   memcacheStore, datastore, ENTITY_KEY_TYPE, units>>

\* Another process writes (ns, key) of the distributed cache, or the entry
\* expires or is evicted (v = Missing).
OtherProcess(ns, key, v) ==
    /\ memcacheStore[ns][key] # v
    /\ memcacheStore' = [memcacheStore EXCEPT ![ns][key] = v]
    /\ last' = NoCall("other_process")
    /\ UNCHANGED <<LOCAL_CACHE, IS_READONLY, READONLY_REENTRY_COUNT,
                   READONLY_APP_CONTEXT, CAN_USE_MEMCACHE, currentCourse,
                   fsReadonly, datastore, ENTITY_KEY_TYPE, units>>

\* memcache.flush_all(): the distributed cache loses every entry.
FlushAll ==
    /\ memcacheStore' =
           [n \in Namespaces |-> [k \in AllKeys |-> Missing]]
    /\ memcacheStore' # memcacheStore
    /\ last' = NoCall("flush_all")
    /\ UNCHANGED <<LOCAL_CACHE, IS_READONLY, READONLY_REENTRY_COUNT,
                   READONLY_APP_CONTEXT, CAN_USE_MEMCACHE, currentCourse,
                   fsReadonly, datastore, ENTITY_KEY_TYPE, units>>

\* The namespace argument of the calls and the namespace the
\* namespace_manager holds during the call.
NsInputs == {<<NoneVal, "ns1">>}

\* The calls of the cache operations on keys K and values V, with the
\* namespace arguments and current namespaces of N, the backend failing the
\* request of the call for the values of F.
CacheCallsIn(K, V, F, N) ==
    \/ \E key \in K, n \in N, fail \in F :
           Get(key, n[1], n[2], fail)
    \/ \E keys \in ListsUpTo(K, MaxKeys), n \in N, fail \in F :
           GetMulti(keys, n[1], n[2], fail)
    \/ \E key \in K, value \in V \cup {"big"}, n \in N, fail \in F :
           Set(key, value, n[1], n[2], fail)
    \/ \E mapping \in DictsOver(K, V) \cup {EmptyDict}, n \in N,
          fail \in F :
           SetMulti(mapping, n[1], n[2], fail)
    \/ \E key \in K, n \in N, fail \in F :
           Delete(key, n[1], n[2], fail)
    \/ \E keys \in ListsUpTo(K, MaxKeys), n \in N, fail \in F :
           DeleteMulti(keys, n[1], n[2], fail)
    \/ \E key \in K, v \in V \cup {Missing} : OtherProcess("ns1", key, v)

\* The same calls in the current namespace "ns1".
CacheCalls(K, V, F) == CacheCallsIn(K, V, F, NsInputs)

\* The snapshot session: requests of every course and of no course, nested
\* sessions, and the cache operations on one key with a backend that may
\* fail.
Next ==
    \/ BeginReadonly(MaxReentry)
    \/ EndReadonly
    \/ ClearReadonlyCache
    \/ CacheCalls({"k1"}, {"v1"}, BOOLEAN)
    \/ \E n \in NsInputs, fail \in BOOLEAN : Incr("k1", 1, n[1], n[2], fail)
    \/ \E c \in CoursesOrNone : SetCurrentCourse(c)
    \/ \E b \in BOOLEAN : SetCanUseMemcache(b)

Spec == Init /\ [][Next]_vars

\* The two cache tiers: every key and value with a reachable backend, in
\* sessions of one course and of no course.
NextCache ==
    \/ BeginReadonly(CacheMaxReentry)
    \/ EndReadonly
    \/ ClearReadonlyCache
    \/ CacheCalls(Keys, Values, {FALSE})
    \/ \E c \in {"courseA", NoneVal} : SetCurrentCourse(c)
    \/ \E b \in BOOLEAN : SetCanUseMemcache(b)

SpecCache == Init /\ [][NextCache]_vars

\* The namespaces of the calls of SpecNamespaces: the current namespace
\* "ns1" by default, the namespace "default" by argument, and the default
\* namespace while the namespace_manager holds none.
TwoNsInputs == {<<NoneVal, "ns1">>, <<DEFAULT_NAMESPACE_NAME, "ns1">>,
                <<NoneVal, "">>}

\* Two namespaces: the cache operations on one key in either namespace,
\* inside and outside a snapshot.
NextNamespaces ==
    \/ BeginReadonly(CacheMaxReentry)
    \/ EndReadonly
    \/ CacheCallsIn({"k1"}, Values, {FALSE}, TwoNsInputs)

SpecNamespaces == Init /\ [][NextNamespaces]_vars

KeyTypes == {"EntityKeyTypeId", "EntityKeyTypeName"}

\* The DTOs handed to the DAO: with an id or a key name, or with none yet.
Dtos == {DTO(i, d) : i \in Ids \cup {NoneVal}, d \in PayloadDicts}

\* The DTOs handed to save_all.
BatchDtos == {DTO(i, DictX(1)) : i \in Ids \cup {NoneVal}}

\* The MemcacheManager operations whose requests the backend fails during
\* a DAO call.
DaoFailOps == {{}, {"set"}}

\* The same, or the datastore failing the write of a save, of a delete.
SaveFailOps == DaoFailOps \cup {{"db.put"}}

DeleteFailOps == {{}, {"db.delete"}}

\* The lists handed to bulk_load and to save_all.
IdLists == ListsUpTo(Ids, MaxIds)

DtoLists == ListsUpTo(BatchDtos, MaxIds)

InitDao == \E key_type \in KeyTypes, b \in BOOLEAN : Start(key_type, b)

\* The record store: DAO calls of either key strategy, with caching on or
\* off, on a cache that loses its entries and whose writes can fail.
NextDao ==
    \/ \E obj_id \in Ids \cup {NoneVal}, failops \in DaoFailOps :
           Load(obj_id, "ns1", failops)
    \/ \E obj_id_list \in IdLists :
           BulkLoad(obj_id_list, "ns1", {})
    \/ \E dto \in Dtos, failops \in SaveFailOps : Save(dto, "ns1", failops)
    \/ \E dtos \in DtoLists : SaveAll(dtos, "ns1", {})
    \/ \E i \in Ids, failops \in DeleteFailOps :
           DaoDelete(DTO(i, EmptyDict), "ns1", failops)
    \/ GetAll("ns1", {})
    \/ FlushAll

SpecDao == InitDao /\ [][NextDao]_vars

\* StudentPropertyEntity.put() of the entity with this key name and value.
PropertyPut(key, value, mns, failops) ==
    /\ Apply("StudentPropertyEntity.put",
             student_property_put(Cur, DaoEnv(mns, failops),
                                  Entity(key, value)))

\* StudentPropertyEntity.delete() of a stored entity.
PropertyDelete(key, mns, failops) ==
    /\ Stored(Cur, key)
    /\ Apply("StudentPropertyEntity.delete",
             student_property_delete(Cur, DaoEnv(mns, failops),
                                     StoredEntity(Cur, key)))

PropertyGet(key, mns, failops) ==
    /\ Apply("StudentPropertyEntity.get",
             student_property_get(Cur, DaoEnv(mns, failops), key))

\* The student properties: the datastore holds the entities of
\* StudentPropertyEntity, under key names; caching on or off, on a cache
\* that loses its entries and whose writes can fail.
InitProperty == \E b \in BOOLEAN : Start("EntityKeyTypeName", b)

NextProperty ==
    \/ \E key \in Ids, value \in JsonTexts, failops \in DaoFailOps :
           PropertyPut(key, value, "ns1", failops)
    \/ \E key \in Ids : PropertyDelete(key, "ns1", {})
    \/ \E key \in Ids, failops \in DaoFailOps :
           PropertyGet(key, "ns1", failops)
    \/ FlushAll

SpecProperty == InitProperty /\ [][NextProperty]_vars

(* ------------------------------------------------------------------ *)
(* Concurrent DAO calls: one step per call to the cache or datastore   *)
(* ------------------------------------------------------------------ *)

\* The environment of the calls of the units: caching enabled, the cache
\* and the datastore working.
UnitEnv == DaoEnv("ns1", {})

\* Unit u takes the step `step` of its call, with result r, and goes on as
\* unit record next.
Step(u, step, r, next) ==
    /\ Effects(r)
    /\ units' = [units EXCEPT ![u] = next]
    /\ last' = Called(step, r)

\* Where a method goes on after its call of _load_entity.
AfterLoadEntity(op) ==
    CASE op = "load" -> "done"
      [] op = "save" -> "entity.put"
      [] op = "dao_delete" -> "entity.delete"

\* Unit u is called with load(dto.id), get_all(), save(dto) or delete(dto):
\* _load_entity returns None at once for an unset id.
Begin(u, op, dto) ==
    /\ units[u] = Idle
    /\ (ENTITY_KEY_TYPE = "EntityKeyTypeName" /\ op = "save") =>
           dto.id # NoneVal
    /\ Step(u, "begin", Return(Cur, RetNone),
            [Idle EXCEPT !.op = op, !.dto = dto,
                         !.pc = IF op = "get_all" THEN "get_all.get"
                                ELSE IF dto.id = NoneVal
                                THEN AfterLoadEntity(op)
                                ELSE "_load_entity.get"])

\* _load_entity: entity = MemcacheManager.get(memcache_key), and the two
\* tests of what it returned.
LoadEntityGet(u) ==
    /\ units[u].pc = "_load_entity.get"
    /\ LET g == get(Cur, On(UnitEnv, "get"),
                    _memcache_key(units[u].dto.id), NoneVal)
       IN  Step(u, "_load_entity.get", g,
                IF g.exc # NoneVal
                THEN [units[u] EXCEPT !.pc = "done", !.exc = g.exc]
                ELSE IF NO_OBJECT = g.ret.v
                THEN [units[u] EXCEPT
                          !.pc = AfterLoadEntity(units[u].op)]
                ELSE IF g.ret.v = NoneVal
                THEN [units[u] EXCEPT !.pc = "_load_entity.fetch"]
                ELSE [units[u] EXCEPT
                          !.entity = g.ret.v,
                          !.pc = AfterLoadEntity(units[u].op)])

\* _load_entity: entity = cls.ENTITY_KEY_TYPE.get_entity_by_key(...)
LoadEntityFetch(u) ==
    /\ units[u].pc = "_load_entity.fetch"
    /\ LET d == get_entity_by_key(Cur, UnitEnv, units[u].dto.id)
       IN  Step(u, "_load_entity.fetch", d,
                IF d.exc # NoneVal
                THEN [units[u] EXCEPT !.pc = "done", !.exc = d.exc]
                ELSE [units[u] EXCEPT !.entity = d.ret,
                                      !.pc = "_load_entity.set"])

\* _load_entity: MemcacheManager.set(memcache_key, entity or NO_OBJECT)
LoadEntitySet(u) ==
    /\ units[u].pc = "_load_entity.set"
    /\ Step(u, "_load_entity.set",
            set(Cur, On(UnitEnv, "set"), _memcache_key(units[u].dto.id),
                IF units[u].entity # NoneVal THEN units[u].entity
                ELSE NO_OBJECT,
                NoneVal),
            [units[u] EXCEPT !.pc = AfterLoadEntity(units[u].op)])

\* save: the rest of _create_if_necessary, before_put and entity.put().
EntityPut(u) ==
    /\ units[u].pc = "entity.put"
    /\ LET c == create_entity(Return(Cur, units[u].entity), UnitEnv,
                              units[u].dto)
           p == entity_put(c.s, UnitEnv, c.ret)
       IN  /\ CanAllocate(Return(Cur, <<c.ret>>))
           /\ Step(u, "entity.put", p,
                   IF p.exc # NoneVal
                   THEN [units[u] EXCEPT !.pc = "done", !.exc = p.exc]
                   ELSE [units[u] EXCEPT !.entity = p.ret,
                                         !.pc = "invalidate"])

\* delete: entity.delete(), on the entity or on None.
EntityDelete(u) ==
    /\ units[u].pc = "entity.delete"
    /\ LET x == IF units[u].entity = NoneVal
                THEN Raise(Cur, "AttributeError")
                ELSE entity_delete(Cur, UnitEnv, units[u].entity)
       IN  Step(u, "entity.delete", x,
                IF x.exc # NoneVal
                THEN [units[u] EXCEPT !.pc = "done", !.exc = x.exc]
                ELSE [units[u] EXCEPT !.pc = "invalidate"])

\* save, delete: MemcacheManager.delete(cls._memcache_all_key())
Invalidate(u) ==
    /\ units[u].pc = "invalidate"
    /\ Step(u, "invalidate",
            delete(Cur, On(UnitEnv, "delete"), _memcache_all_key, NoneVal),
            [units[u] EXCEPT !.pc = IF units[u].op = "save"
                                    THEN "republish" ELSE "delete_key"])

\* save: MemcacheManager.set(cls._memcache_key(id_or_name), entity)
Republish(u) ==
    /\ units[u].pc = "republish"
    /\ Step(u, "republish",
            set(Cur, On(UnitEnv, "set"),
                _memcache_key(entity_key(units[u].entity)), units[u].entity,
                NoneVal),
            [units[u] EXCEPT !.pc = "done"])

\* delete: MemcacheManager.delete(cls._memcache_key(id_or_name))
DeleteKey(u) ==
    /\ units[u].pc = "delete_key"
    /\ Step(u, "delete_key",
            delete(Cur, On(UnitEnv, "delete"),
                   _memcache_key(entity_key(units[u].entity)), NoneVal),
            [units[u] EXCEPT !.pc = "done"])

\* get_all_mapped: entities = MemcacheManager.get(cls._memcache_all_key())
\* and the test of what it returned.
GetAllGet(u) ==
    /\ units[u].pc = "get_all.get"
    /\ LET g == get(Cur, On(UnitEnv, "get"), _memcache_all_key, NoneVal)
       IN  Step(u, "get_all.get", g,
                IF g.exc # NoneVal
                THEN [units[u] EXCEPT !.pc = "done", !.exc = g.exc]
                ELSE IF g.ret.v # NoneVal /\ g.ret.v # NO_OBJECT
                THEN [units[u] EXCEPT
                          !.result = ReadDictOfDtos(g.ret.v),
                          !.pc = "done"]
                ELSE [units[u] EXCEPT !.pc = "get_all.scan"])

\* get_all_mapped: result = {dto.id: dto for dto in cls.get_all_iter()}
GetAllScan(u) ==
    /\ units[u].pc = "get_all.scan"
    /\ LET it == get_all_iter(Cur, UnitEnv)
       IN  Step(u, "get_all.scan", it,
                IF it.exc # NoneVal
                THEN [units[u] EXCEPT !.pc = "done", !.exc = it.exc]
                ELSE [units[u] EXCEPT !.result = DictById(it.ret),
                                      !.pc = "get_all.set"])

\* get_all_mapped: MemcacheManager.set(all key, result or NO_OBJECT)
GetAllSet(u) ==
    /\ units[u].pc = "get_all.set"
    /\ Step(u, "get_all.set",
            set(Cur, On(UnitEnv, "set"), _memcache_all_key,
                IF units[u].result # EmptyDict
                THEN DictOfDtos(units[u].result) ELSE NO_OBJECT,
                NoneVal),
            [units[u] EXCEPT !.pc = "done"])

\* The datastore holds, for each id, no record or one with the payload {};
\* the cache is empty and caching is enabled.
InitRace ==
    \E key_type \in KeyTypes,
       entities \in [Ids -> {Missing, transforms_dumps(EmptyDict)}] :
        StartWith(key_type, TRUE, entities)

\* One read in the unit "reader" and one write in the unit "writer", their
\* calls to the cache and to the datastore interleaved in every order.
NextRace ==
    \/ \E id \in Ids : Begin("reader", "load", DTO(id, EmptyDict))
    \/ Begin("reader", "get_all", DTO(NoneVal, EmptyDict))
    \/ \E dto \in Dtos : Begin("writer", "save", dto)
    \/ \E id \in Ids : Begin("writer", "dao_delete", DTO(id, EmptyDict))
    \/ \E u \in Units : LoadEntityGet(u)
    \/ \E u \in Units : LoadEntityFetch(u)
    \/ \E u \in Units : LoadEntitySet(u)
    \/ \E u \in Units : EntityPut(u)
    \/ \E u \in Units : EntityDelete(u)
    \/ \E u \in Units : Invalidate(u)
    \/ \E u \in Units : Republish(u)
    \/ \E u \in Units : DeleteKey(u)
    \/ \E u \in Units : GetAllGet(u)
    \/ \E u \in Units : GetAllScan(u)
    \/ \E u \in Units : GetAllSet(u)

SpecRace == InitRace /\ [][NextRace]_vars

(* ------------------------------------------------------------------ *)
(* Vocabulary of the properties                                        *)
(* ------------------------------------------------------------------ *)

\* The request environment of a call made now, with the namespace_manager
\* on "ns1" and a reachable backend.
EnvNow == Env("ns1", FALSE)

\* The local map of state s holds an entry for (ns, key).
HasLocal(s, ns, key) ==
    /\ s.lc # NoCache
    /\ ns \in DOMAIN s.lc.d
    /\ key \in DOMAIN s.lc.d[ns]

\* The snapshot state of s is fully reset.
Cleared(s) ==
    /\ s.cnt = 0
    /\ s.lc = NoCache
    /\ ~s.ro
    /\ s.actx = NoneVal
    /\ \A c \in Courses : ~s.fs[c]

\* The three fields of the snapshot session agree.
SessionConsistent ==
    /\ (LOCAL_CACHE # NoCache) <=> IS_READONLY
    /\ IS_READONLY <=> (READONLY_REENTRY_COUNT > 0)
    /\ READONLY_REENTRY_COUNT >= 0

(* ------------------------------------------------------------------ *)
(* The snapshot session (Spec)                                         *)
(* ------------------------------------------------------------------ *)

\* C1: in every reachable state _LOCAL_CACHE is non-None iff _IS_READONLY,
\* _IS_READONLY iff _READONLY_REENTRY_COUNT > 0, and the count is not
\* negative; a begin that returns raises the count by exactly one and an
\* end that returns lowers it by exactly one; a begin or end between two
\* active states leaves the snapshot active with its local entries
\* untouched; the local map is dropped only in a step that takes the count
\* to 0.
C1_SessionInvariant ==
    /\ []SessionConsistent
    /\ [][(last'.op = "begin_readonly" /\ last'.exc = NoneVal)
            => READONLY_REENTRY_COUNT' = READONLY_REENTRY_COUNT + 1]_vars
    /\ [][(last'.op = "end_readonly" /\ last'.exc = NoneVal)
            => READONLY_REENTRY_COUNT' = READONLY_REENTRY_COUNT - 1]_vars
    /\ [][(/\ last'.op \in {"begin_readonly", "end_readonly"}
           /\ last'.exc = NoneVal
           /\ READONLY_REENTRY_COUNT > 0
           /\ READONLY_REENTRY_COUNT' > 0)
            => IS_READONLY' /\ LOCAL_CACHE' = LOCAL_CACHE]_vars
    /\ [][(LOCAL_CACHE # NoCache /\ LOCAL_CACHE' = NoCache)
            => READONLY_REENTRY_COUNT' = 0]_vars

\* C1 witness: begin; begin; end has run and the snapshot is still active
\* at depth 1, holding a local entry.
C1_Witness ==
    /\ last.op = "end_readonly"
    /\ last.exc = NoneVal
    /\ READONLY_REENTRY_COUNT = 1
    /\ IS_READONLY
    /\ HasLocal(Cur, "ns1", "k1")

\* C2: in every reachable state with re-entry count 0, end_readonly raises
\* an AssertionError and leaves the session fully reset: count 0, local map
\* None, not read-only, no owning context.
C2_UnmatchedEndRaises ==
    READONLY_REENTRY_COUNT = 0 =>
        \A c \in CoursesOrNone :
            LET r == end_readonly(Cur, [EnvNow EXCEPT !.course = c])
            IN  r.exc = "AssertionError" /\ Cleared(r.s)

\* C2 witness: an end_readonly with no matching begin has just raised.
C2_Witness ==
    /\ last.op = "end_readonly"
    /\ last.exc = "AssertionError"
    /\ last.fscalls = <<>>
    /\ READONLY_REENTRY_COUNT = 0

\* begin_readonly and end_readonly called now, in a request of course c,
\* both raise and leave the snapshot state cleared.
BothRaiseAndClear(c) ==
    LET env == [EnvNow EXCEPT !.course = c]
        b == begin_readonly(Cur, env)
        e == end_readonly(Cur, env)
    IN  /\ b.exc = "AssertionError" /\ Cleared(b.s)
        /\ e.exc = "AssertionError" /\ Cleared(e.s)

\* C3 as claimed: whenever a session is active, begin_readonly and
\* end_readonly called from a context other than the one that opened the
\* session raise and clear the snapshot state, also when the session was
\* opened with no course context.
C3_Original ==
    READONLY_REENTRY_COUNT > 0 =>
        \A c \in CoursesOrNone \ {READONLY_APP_CONTEXT} : BothRaiseAndClear(c)

\* C3 amended: whenever a session is active and its owning context is a
\* course, begin_readonly and end_readonly called from any other context
\* (another course, or no course) raise and clear the snapshot state; when
\* the session was opened with no course context no owner is recorded and
\* begin_readonly and end_readonly are accepted from every context.
C3_MismatchClearsIfOwnerSet ==
    READONLY_REENTRY_COUNT > 0 =>
        \A c \in CoursesOrNone \ {READONLY_APP_CONTEXT} :
            IF READONLY_APP_CONTEXT # NoneVal
            THEN BothRaiseAndClear(c)
            ELSE LET env == [EnvNow EXCEPT !.course = c]
                 IN  /\ begin_readonly(Cur, env).exc = NoneVal
                     /\ end_readonly(Cur, env).exc = NoneVal

\* C3 witness: a begin_readonly in a request of course B has just raised
\* and released the file system of course A, which owned the session.
C3_Witness ==
    /\ last.op = "begin_readonly"
    /\ last.exc = "AssertionError"
    /\ last.fscalls = <<<<"end_readonly", "courseA">>>>
    /\ currentCourse = "courseB"
    /\ Cleared(Cur)

\* C4: in every reachable state, at any nesting depth, clear_readonly_cache
\* leaves re-entry count 0, local map None, read-only flag false, owning
\* context None and no course file system in read-only mode.
C4_ClearResetsEverything == Cleared(clear_readonly_cache(Cur))

\* C4 witness: clear_readonly_cache has just reset a session owned by
\* course A, releasing its file system.
C4_Witness ==
    /\ last.op = "clear_readonly_cache"
    /\ last.fscalls = <<<<"end_readonly", "courseA">>>>
    /\ Cleared(Cur)

\* C5: the begin_readonly that takes the count from 0 to 1 installs an empty
\* local map, records the course of the request as owner and calls its
\* fs.begin_readonly exactly once; the end_readonly that takes the count
\* from 1 to 0 drops the local map, calls the owner's fs.end_readonly
\* exactly once and clears the owner; and a course's file system is in
\* read-only mode exactly while the count is positive and the course owns
\* the session.
C5_FirstBeginFinalEnd ==
    /\ [][(READONLY_REENTRY_COUNT = 0 /\ READONLY_REENTRY_COUNT' = 1)
            => /\ last'.op = "begin_readonly"
               /\ LOCAL_CACHE' = DictCache(EmptyDict)
               /\ READONLY_APP_CONTEXT' = currentCourse
               /\ last'.fscalls =
                      IF currentCourse # NoneVal
                      THEN <<<<"begin_readonly", currentCourse>>>>
                      ELSE <<>>]_vars
    /\ [][(/\ READONLY_REENTRY_COUNT = 1
           /\ READONLY_REENTRY_COUNT' = 0
           /\ last'.op = "end_readonly"
           /\ last'.exc = NoneVal)
            => /\ LOCAL_CACHE' = NoCache
               /\ READONLY_APP_CONTEXT' = NoneVal
               /\ last'.fscalls =
                      IF READONLY_APP_CONTEXT # NoneVal
                      THEN <<<<"end_readonly", READONLY_APP_CONTEXT>>>>
                      ELSE <<>>]_vars
    /\ [](\A c \in Courses :
              fsReadonly[c] <=>
                  (READONLY_REENTRY_COUNT > 0 /\ READONLY_APP_CONTEXT = c))

\* C5 witness: the final end_readonly of a session of course A has just
\* returned, having released the file system once.
C5_Witness ==
    /\ last.op = "end_readonly"
    /\ last.exc = NoneVal
    /\ last.fscalls = <<<<"end_readonly", "courseA">>>>
    /\ READONLY_REENTRY_COUNT = 0
    /\ LOCAL_CACHE = NoCache

\* C6 as claimed: after a cache call has raised an AssertionError (a context
\* mismatch found by the local tier, or a delete under the snapshot) the
\* session is inactive and has no local map.
C6_Original ==
    (/\ last.op \in {"get", "get_multi", "delete", "delete_multi"}
     /\ last.exc = "AssertionError")
        => (~IS_READONLY /\ LOCAL_CACHE = NoCache)

(* ------------------------------------------------------------------ *)
(* The two cache tiers (SpecCache)                                     *)
(* ------------------------------------------------------------------ *)

\* The value the local map of s holds for (ns, key).
LocalValue(s, ns, key) == s.lc.d[ns][key]

\* State s with the logs of the previous call wiped: the next call starts.
Fresh(s) ==
    [s EXCEPT !.calls = <<>>, !.fscalls = <<>>, !.dscalls = <<>>,
              !.dsat = <<>>, !.hookcalls = <<>>,
              !.ctr = ZeroCounters]

\* The call is made by the owner of the session, with caching enabled.
OwnerCalls == CAN_USE_MEMCACHE /\ _is_same_app_context_if_set(Cur, EnvNow)

\* C7: while a snapshot is active, a get whose key is in the local map and
\* a get_multi whose keys all are in the local map issue no request to the
\* distributed cache, whatever the backend would answer, and (caching being
\* enabled and the caller the owner of the session, so that the call
\* returns through the cache) return the locally stored value(s).
C7_LocalHitSkipsMemcache ==
    IS_READONLY =>
        \A fail \in BOOLEAN :
            LET env == Env("ns1", fail)
            IN  /\ \A key \in Keys :
                       HasLocal(Cur, "ns1", key) =>
                           LET r == get(Cur, env, key, NoneVal)
                           IN  /\ r.s.calls = <<>>
                               /\ OwnerCalls =>
                                      /\ r.exc = NoneVal
                                      /\ r.ret = RetValue(
                                             LocalValue(Cur, "ns1", key))
                /\ \A keys \in ListsUpTo(Keys, MaxKeys) :
                       (\A i \in 1..Len(keys) : HasLocal(Cur, "ns1", keys[i]))
                        => LET r == get_multi(Cur, env, keys, NoneVal)
                           IN  /\ r.s.calls = <<>>
                               /\ OwnerCalls =>
                                      /\ r.exc = NoneVal
                                      /\ r.ret = RetList(
                                             [i \in 1..Len(keys) |->
                                                  LocalValue(Cur, "ns1",
                                                             keys[i])])

\* C7 witness: under an active snapshot a get has just been answered from
\* the local map with a stored value that differs from the distributed
\* cache, without a request to it.
C7_Witness ==
    /\ IS_READONLY
    /\ last.op = "get"
    /\ last.exc = NoneVal
    /\ last.ctr.CACHE_HIT_LOCAL = 1
    /\ last.calls = <<>>
    /\ last.ret = RetValue("v1")
    /\ memcacheStore["ns1"]["k1"] # "v1"
    /\ memcacheStore["ns1"]["k2"] # "v1"

\* The reads of the cache: get(key) and get_multi(keys).
Reads ==
    {[op |-> "get", keys |-> <<k>>] : k \in Keys}
        \cup {[op |-> "get_multi", keys |-> ks] : ks \in ListsUpTo(Keys, MaxKeys)}

DoRead(s, rd) ==
    IF rd.op = "get" THEN get(s, EnvNow, rd.keys[1], NoneVal)
    ELSE get_multi(s, EnvNow, rd.keys, NoneVal)

\* The keys the requests logged in s ask the distributed cache for.
RequestedKeys(s) == UNION {s.calls[i].keys : i \in 1..Len(s.calls)}

\* C8 as claimed: within one active snapshot, once a key has been read
\* through get or get_multi, a later get or get_multi of that key makes no
\* request to the distributed cache for it.
C8_Original ==
    (IS_READONLY /\ OwnerCalls) =>
        \A first \in Reads, second \in Reads :
            LET r1 == DoRead(Cur, first)
                r2 == DoRead(Fresh(r1.s), second)
            IN  r1.exc = NoneVal =>
                    RequestedKeys(r2.s) \cap Range(first.keys) = {}

\* C9 as claimed: get_multi returns a mapping from key to value, holding
\* only requested keys: the keys found in the distributed cache when no
\* snapshot is active, nothing when caching is disabled.
C9_Original ==
    \A keys \in ListsUpTo(Keys, MaxKeys) :
        LET r == get_multi(Cur, EnvNow, keys, NoneVal)
            found == {k \in Range(keys) : memcacheStore["ns1"][k] # Missing}
        IN  r.exc = NoneVal =>
                /\ r.ret.kind = "dict"
                /\ DOMAIN r.ret.items \subseteq Range(keys)
                /\ ~CAN_USE_MEMCACHE => r.ret.items = EmptyDict
                /\ (CAN_USE_MEMCACHE /\ ~IS_READONLY) =>
                       r.ret.items = [k \in found |-> memcacheStore["ns1"][k]]

\* The writes of the cache: set(key, value) is the write of a one-entry
\* mapping, set_multi(mapping) of any mapping.
Writes ==
    {[op |-> "set", mapping |-> DictPut(EmptyDict, k, v)] :
         k \in Keys, v \in Values}
        \cup {[op |-> "set_multi", mapping |-> m] : m \in DictsOver(Keys, Values)}

DoWrite(s, env, w) ==
    IF w.op = "set"
    THEN LET k == CHOOSE x \in DOMAIN w.mapping : TRUE
         IN  set(s, env, k, w.mapping[k], NoneVal)
    ELSE set_multi(s, env, w.mapping, NoneVal)

\* After write w, made in state s with result r, every key written holds
\* the written value in both tiers and a following get returns it from the
\* local map.
InBothTiers(r, w) ==
    \A k \in DOMAIN w.mapping :
        /\ r.s.mc["ns1"][k] = w.mapping[k]
        /\ HasLocal(r.s, "ns1", k)
        /\ LocalValue(r.s, "ns1", k) = w.mapping[k]
        /\ LET g == get(Fresh(r.s), EnvNow, k, NoneVal)
           IN  g.ret = RetValue(w.mapping[k]) /\ g.s.calls = <<>>

EnvsNow ==
    {[course |-> c, can |-> CAN_USE_MEMCACHE, namespace |-> "ns1",
      fail |-> f] : c \in CoursesOrNone, f \in BOOLEAN}

\* The call with result r changed neither tier of the cache and made no
\* request to the distributed cache.
NoCacheEffect(r) ==
    /\ r.s.mc = memcacheStore
    /\ r.s.lc = LOCAL_CACHE
    /\ r.s.calls = <<>>

\* C11: while a snapshot is active, delete and delete_multi, called from
\* any context, with caching on or off, raise an AssertionError and leave
\* the distributed cache and the local map as they were, without a request
\* to the distributed cache.
C11_DeleteRejectedInSnapshot ==
    IS_READONLY =>
        \A e \in EnvsNow, can \in BOOLEAN :
            LET env == [e EXCEPT !.can = can]
            IN  /\ \A key \in Keys :
                       LET r == delete(Cur, env, key, NoneVal)
                       IN  r.exc = "AssertionError" /\ NoCacheEffect(r)
                /\ \A key_list \in ListsUpTo(Keys, MaxKeys) :
                       LET r == delete_multi(Cur, env, key_list, NoneVal)
                       IN  r.exc = "AssertionError" /\ NoCacheEffect(r)

\* C11 witness: a delete of a key held by both tiers has just been
\* rejected under an active snapshot, and both tiers still hold the key.
C11_Witness ==
    /\ IS_READONLY
    /\ last.op = "delete"
    /\ last.exc = "AssertionError"
    /\ last.calls = <<>>
    /\ memcacheStore["ns1"]["k1"] = "v1"
    /\ HasLocal(Cur, "ns1", "k1")

\* With caching disabled the reads return not-found and set, set_multi and
\* incr are no-ops, without a request to the distributed cache.
DisabledReadsAndSets(env) ==
    /\ \A key \in Keys :
           LET r == get(Cur, env, key, NoneVal)
           IN  /\ r.exc = NoneVal /\ r.ret = RetValue(NoneVal)
               /\ NoCacheEffect(r)
    /\ \A keys \in ListsUpTo(Keys, MaxKeys) :
           LET r == get_multi(Cur, env, keys, NoneVal)
           IN  /\ r.exc = NoneVal /\ r.ret = RetDict(EmptyDict)
               /\ NoCacheEffect(r)
    /\ \A key \in Keys, value \in Values \cup {"big"} :
           LET r == set(Cur, env, key, value, NoneVal)
           IN  r.exc = NoneVal /\ NoCacheEffect(r)
    /\ \A mapping \in DictsOver(Keys, Values) \cup {EmptyDict} :
           LET r == set_multi(Cur, env, mapping, NoneVal)
           IN  r.exc = NoneVal /\ NoCacheEffect(r)
    /\ \A key \in Keys :
           LET r == incr(Cur, env, key, 1, NoneVal)
           IN  r.exc = NoneVal /\ NoCacheEffect(r)

\* With caching disabled delete and delete_multi change nothing and leave
\* with the exception exc.
DisabledDeletes(env, exc) ==
    /\ \A key \in Keys :
           LET r == delete(Cur, env, key, NoneVal)
           IN  r.exc = exc /\ NoCacheEffect(r)
    /\ \A key_list \in ListsUpTo(Keys, MaxKeys) :
           LET r == delete_multi(Cur, env, key_list, NoneVal)
           IN  r.exc = exc /\ NoCacheEffect(r)

\* C12 as claimed: with CAN_USE_MEMCACHE false, in every session state,
\* get returns None, get_multi an empty mapping, and set, set_multi, delete,
\* delete_multi and incr neither raise nor change either tier.
C12_Original ==
    ~CAN_USE_MEMCACHE =>
        \A env \in EnvsNow :
            DisabledReadsAndSets(env) /\ DisabledDeletes(env, NoneVal)

\* C12 amended: with CAN_USE_MEMCACHE false, in every session state, get
\* returns None, get_multi an empty mapping, and set, set_multi and incr
\* neither raise nor change either tier; delete and delete_multi change
\* neither tier as well, and return normally when no snapshot is active,
\* but raise an AssertionError while a snapshot is active.
C12_DisabledIsNoOp ==
    ~CAN_USE_MEMCACHE =>
        \A env \in EnvsNow :
            /\ DisabledReadsAndSets(env)
            /\ DisabledDeletes(env, IF IS_READONLY THEN "AssertionError"
                                    ELSE NoneVal)

\* C12 witness: with caching disabled a get of a key the distributed cache
\* holds has just returned None without a request.
C12_Witness ==
    /\ ~CAN_USE_MEMCACHE
    /\ last.op = "get"
    /\ last.exc = NoneVal
    /\ last.ret = RetValue(NoneVal)
    /\ last.calls = <<>>
    /\ memcacheStore["ns1"]["k1"] = "v1"

\* C14 as claimed: with caching enabled, a set of a value over MEMCACHE_MAX
\* and a set_multi of a mapping over MEMCACHE_MULTI_MAX do not raise, count
\* one CACHE_PUT_TOO_BIG, and leave the key absent from the distributed
\* cache and from the local map, whatever the cache held before.
C14_Original ==
    (CAN_USE_MEMCACHE /\ OwnerCalls) =>
        \A key \in Keys :
            LET r1 == set(Cur, EnvNow, key, "big", NoneVal)
                r2 == set_multi(Cur, EnvNow, DictPut(EmptyDict, key, "huge"),
                                NoneVal)
            IN  \A r \in {r1, r2} :
                    /\ r.exc = NoneVal
                    /\ r.s.ctr.CACHE_PUT_TOO_BIG = 1
                    /\ r.s.mc["ns1"][key] = Missing
                    /\ HasLocal(r.s, "ns1", key) =>
                           LocalValue(r.s, "ns1", key) = NoneVal

\* The write operations of the facade on key, made in environment env.
WriteCalls(env, key) ==
    {set(Cur, env, key, "v1", NoneVal),
     set_multi(Cur, env, DictPut(EmptyDict, key, "v1"), NoneVal),
     delete(Cur, env, key, NoneVal),
     delete_multi(Cur, env, <<key>>, NoneVal),
     incr(Cur, env, key, 1, NoneVal)}

\* C15 as claimed: with caching enabled and no snapshot active, a set,
\* set_multi, delete, delete_multi or incr whose request the backend fails
\* returns normally and leaves the distributed cache as it was.
C15_Original ==
    (CAN_USE_MEMCACHE /\ ~IS_READONLY) =>
        \A key \in Keys :
            \A r \in WriteCalls(Env("ns1", TRUE), key) :
                r.exc = NoneVal /\ r.s.mc = memcacheStore

\* C16 as claimed: get and get_multi of the owner of the session never
\* raise; with the backend unreachable a read that is not answered by the
\* local map returns a miss: None from get, a mapping without the key from
\* get_multi.
C16_Original ==
    OwnerCalls =>
        \A fail \in BOOLEAN, key \in Keys :
            LET g == get(Cur, Env("ns1", fail), key, NoneVal)
                m == get_multi(Cur, Env("ns1", fail), <<key>>, NoneVal)
            IN  /\ g.exc = NoneVal
                /\ m.exc = NoneVal
                /\ (fail /\ ~HasLocal(Cur, "ns1", key)) =>
                       /\ g.ret = RetValue(NoneVal)
                       /\ m.ret = RetDict(EmptyDict)

(* ------------------------------------------------------------------ *)
(* The record store (SpecDao)                                          *)
(* ------------------------------------------------------------------ *)

\* What direct access to the datastore gives for id: the DTO of the stored
\* record, None when there is none.
DirectLoad(id) ==
    IF Stored(Cur, id)
    THEN RetDto(DTO(id, transforms_loads(datastore[id])))
    ELSE RetNone

\* The states a DAO call can start from now: the current one, and the one
\* inside a read-only snapshot opened now.
StartsNow == {Cur, begin_readonly(Cur, EnvNow).s}

\* Call r read the datastore, changed neither it nor the cache, and made no
\* request to the distributed cache.
ReadOnlyOffCache(r) ==
    /\ r.exc = NoneVal
    /\ r.s.ds = datastore
    /\ r.s.mc = memcacheStore
    /\ r.s.calls = <<>>

\* The backend reachable, and the backend failing every request.
UpOrDown == {{}, {"get", "get_multi", "set", "set_multi", "delete"}}

\* C13: in every state (whatever the cache tiers hold, stale entries
\* included, inside or outside a snapshot, the backend reachable or not), a
\* load, bulk_load or get_all made with caching disabled returns exactly
\* what the datastore holds at that moment, without a request to the
\* distributed cache and without changing the cache or the datastore.
C13_DisabledIsDirectAccess ==
    \A failops \in UpOrDown, s \in StartsNow :
        LET env == [DaoEnv("ns1", failops) EXCEPT !.can = FALSE]
        IN  /\ \A id \in Ids :
                   LET r == load(s, env, id)
                   IN  ReadOnlyOffCache(r) /\ r.ret = DirectLoad(id)
            /\ \A ids \in IdLists :
                   LET r == bulk_load(s, env, ids)
                   IN  /\ ReadOnlyOffCache(r)
                       /\ r.ret = RetList([i \in 1..Len(ids) |->
                                               DirectLoad(ids[i])])
            /\ LET r == get_all(s, env)
               IN  /\ ReadOnlyOffCache(r)
                   /\ r.ret = [kind |-> "values",
                               items |-> {DirectLoad(i) :
                                              i \in {j \in Ids :
                                                         Stored(Cur, j)}}]

\* C13 witness: with caching disabled, a bulk_load of a saved and of an
\* unsaved id has just returned the DTO and None from one datastore fetch,
\* without a request to the distributed cache.
C13_Witness ==
    /\ ~CAN_USE_MEMCACHE
    /\ last.op = "bulk_load"
    /\ last.exc = NoneVal
    /\ last.calls = <<>>
    /\ Len(last.dscalls) = 1
    /\ last.ret = RetList(<<RetDto(DTO("1", DictX(1))), RetNone>>)

\* A DAO call made now with caching enabled and the backend reachable.
DaoEnvNow == [DaoEnv("ns1", {}) EXCEPT !.can = TRUE]

\* What the distributed cache holds under the key of id.
Cached(id) == memcacheStore["ns1"][_memcache_key(id)]

\* What load caches for id after it has read the datastore: the entity, or
\* NO_OBJECT when there is none.
ReadThrough(id) ==
    IF Stored(Cur, id) THEN Entity(id, datastore[id]) ELSE NO_OBJECT

\* C17: with caching enabled and the backend reachable, inside or outside a
\* snapshot, a load(id) that misses the cache reads the datastore exactly
\* once, returns what the datastore holds and writes the entity, or
\* NO_OBJECT when there is none, into the cache (and into the local map
\* during a snapshot); a second load(id) right after any load returns the
\* same DTO or None without reading the datastore.
C17_LoadReadThrough ==
    \A s \in StartsNow, id \in Ids :
        LET r1 == load(s, DaoEnvNow, id)
            r2 == load(Fresh(r1.s), DaoEnvNow, id)
        IN  /\ r1.exc = NoneVal /\ r2.exc = NoneVal
            /\ Cached(id) = Missing =>
                   /\ r1.s.dscalls = <<DsCall("get", <<id>>)>>
                   /\ r1.ret = DirectLoad(id)
                   /\ r1.s.mc["ns1"][_memcache_key(id)] = ReadThrough(id)
                   /\ s.ro => LocalValue(r1.s, "ns1", _memcache_key(id))
                                  = ReadThrough(id)
            /\ r2.ret = r1.ret
            /\ r2.s.dscalls = <<>>
            /\ r2.s.ds = datastore

\* C17 witness: a load of an id the datastore does not hold has just been
\* answered None from the NO_OBJECT an earlier load cached, without reading
\* the datastore.
C17_Witness ==
    /\ last.op = "load"
    /\ last.exc = NoneVal
    /\ last.ret = RetNone
    /\ Len(last.calls) = 1
    /\ last.dscalls = <<>>
    /\ Cached("1") = NO_OBJECT
    /\ last.calls[1].keys = {_memcache_key("1")}
    /\ ~Stored(Cur, "1")

\* C18: in every state, inside or outside a snapshot, with caching on or
\* off and the backend reachable or not, load(None) returns None and leaves
\* the whole state as it was: no request to the distributed cache, no call
\* of the datastore, no counter incremented, both cache tiers and the
\* datastore unchanged.
C18_LoadOfNoneTouchesNothing ==
    \A s \in StartsNow, failops \in UpOrDown, can \in BOOLEAN :
        LET r == load(s, [DaoEnv("ns1", failops) EXCEPT !.can = can], NoneVal)
        IN  r.exc = NoneVal /\ r.ret = RetNone /\ r.s = s

\* C18 witness: with caching enabled and a record in the datastore, a
\* load(None) has just returned None with no cache request and no datastore
\* call.
C18_Witness ==
    /\ CAN_USE_MEMCACHE
    /\ last.op = "load"
    /\ last.ret = RetNone
    /\ last.calls = <<>>
    /\ last.dscalls = <<>>
    /\ last.ctr = ZeroCounters
    /\ \E id \in Ids : Stored(Cur, id) /\ Cached(id) # Missing

\* What a read of id answered from the cached value v returns: None for
\* NO_OBJECT, the DTO of the cached entity otherwise, whatever its payload.
FromCache(id, v) ==
    IF v = NO_OBJECT THEN RetNone
    ELSE RetDto(DTO(id, transforms_loads(entity_data(v))))

\* What a read of id returns: the cached value when there is one, the
\* datastore's record otherwise.
CachedOrDirect(id) ==
    IF Cached(id) = Missing THEN DirectLoad(id)
    ELSE FromCache(id, Cached(id))

\* C19: with caching enabled and the backend reachable, inside or outside a
\* snapshot: load and bulk_load answer None for an id whose cached value is
\* NO_OBJECT, without reading the datastore for it, and answer the DTO of
\* the cached or stored entity otherwise, also when its payload is the
\* empty dict; get_all never returns a cached NO_OBJECT as the set of
\* records: it returns the cached dict when one is cached and the records
\* of the datastore otherwise.
C19_SentinelNotConfused ==
    \A s \in StartsNow :
        /\ \A id \in Ids :
               LET r == load(s, DaoEnvNow, id)
               IN  /\ r.ret = CachedOrDirect(id)
                   /\ Cached(id) = NO_OBJECT => r.s.dscalls = <<>>
                   /\ (Stored(Cur, id) /\ Cached(id) = Missing) =>
                          r.ret.kind = "dto"
        /\ \A ids \in IdLists :
               LET r == bulk_load(s, DaoEnvNow, ids)
               IN  /\ r.ret = RetList([i \in 1..Len(ids) |->
                                           CachedOrDirect(ids[i])])
                   /\ \A i \in 1..Len(r.s.dscalls) :
                          \A id \in Range(r.s.dscalls[i].ids) :
                              Cached(id) = Missing
        /\ LET r == get_all(s, DaoEnvNow)
               all == memcacheStore["ns1"][_memcache_all_key]
           IN  r.ret =
                   IF all \in {Missing, NO_OBJECT}
                   THEN [kind |-> "values",
                         items |-> {DirectLoad(i) :
                                        i \in {j \in Ids : Stored(Cur, j)}}]
                   ELSE RetValues(ReadDictOfDtos(all))

\* C19 witness: a load has just returned, from the cache alone, the DTO of
\* a record whose payload is the empty dict.
C19_Witness ==
    /\ last.op = "load"
    /\ last.exc = NoneVal
    /\ last.ret = RetDto(DTO("1", EmptyDict))
    /\ last.dscalls = <<>>
    /\ Len(last.calls) = 1
    /\ Cached("1") = Entity("1", transforms_dumps(EmptyDict))

\* State s after memcache.flush_all().
Flushed(s) ==
    [s EXCEPT !.mc = [n \in Namespaces |-> [k \in AllKeys |-> Missing]]]

\* C20 as claimed: with caching enabled and no snapshot active, after a
\* save(d) that returned (the backend failing none of its requests, or the
\* set that republishes the cache entry), load(d.id) returns a DTO with d's
\* payload, and so does load(d.id) after a flush of the cache.
C20_Original ==
    (CAN_USE_MEMCACHE /\ ~IS_READONLY) =>
        \A d \in Dtos, failops \in DaoFailOps :
            LET c == save_all_create(Cur, DaoEnv("ns1", failops), <<d>>, 1,
                                     <<>>)
                r == save(Cur, DaoEnv("ns1", failops), d)
            IN  (/\ d.id # NoneVal
                 /\ CanAllocate(c)
                 /\ r.exc = NoneVal)
                    => /\ load(Fresh(r.s), DaoEnvNow, d.id).ret = RetDto(d)
                       /\ load(Flushed(Fresh(r.s)), DaoEnvNow, d.id).ret
                              = RetDto(d)

(* ------------------------------------------------------------------ *)
(* Claims C21..C30: the record store                                   *)
(* ------------------------------------------------------------------ *)

\* A DAO call made now with caching enabled while the backend fails every
\* memcache.set.
DaoEnvSetFails == [DaoEnv("ns1", {"set"}) EXCEPT !.can = TRUE]

\* The DTOs the DAO class of this state can be handed by save.
SavableDtos ==
    {d \in Dtos :
         /\ ENTITY_KEY_TYPE = "EntityKeyTypeName" => d.id # NoneVal
         /\ CanAllocate(save_all_create(Cur, DaoEnvSetFails, <<d>>, 1, <<>>))}

\* C21 as claimed: with caching enabled, after a save(d) whose cache writes
\* failed in transport and which returned id, a load(id) returns d's payload,
\* not what the cache held for id before the save.
C21_Original ==
    CAN_USE_MEMCACHE =>
        \A d \in SavableDtos :
            LET r == save(Cur, DaoEnvSetFails, d)
            IN  r.exc = NoneVal =>
                    load(Fresh(r.s), DaoEnvNow, r.ret.v).ret
                        = RetDto(DTO(r.ret.v, d.dict))

\* C22 as claimed: inside or outside a snapshot, bulk_load(L) returns a list
\* as long as L whose i-th item is None exactly when the datastore holds no
\* record for L[i], and is the DTO of L[i] otherwise.
C22_Original ==
    \A s \in StartsNow, ids \in IdLists :
        LET r == bulk_load(s, DaoEnv("ns1", {}), ids)
        IN  /\ r.exc = NoneVal
            /\ r.ret.kind = "list"
            /\ Len(r.ret.items) = Len(ids)
            /\ \A i \in 1..Len(ids) :
                   /\ (r.ret.items[i] = RetNone) <=> ~Stored(Cur, ids[i])
                   /\ r.ret.items[i] # RetNone =>
                          r.ret.items[i].id = ids[i]

\* The ids of the list whose key the distributed cache does not hold, in
\* the order of the list.
Uncached(ids) ==
    LET IsUncached(id) == Cached(id) = Missing
    IN  SelectSeq(ids, IsUncached)

\* C23 as claimed: with caching enabled and the backend reachable, inside
\* or outside a snapshot opened now, bulk_load(L) makes one batched datastore
\* fetch of exactly the ids of L the cache does not hold (none when it holds
\* them all), leaves under each fetched id's key the stored entity, or
\* NO_OBJECT when there is none, leaves the other keys as they were, and a
\* second bulk_load(L) right after it makes no datastore call and returns
\* the same list.
C23_Original ==
    \A s \in StartsNow, ids \in IdLists :
        LET r == bulk_load(s, DaoEnvNow, ids)
            r2 == bulk_load(Fresh(r.s), DaoEnvNow, ids)
        IN  /\ r.exc = NoneVal
            /\ r.s.dscalls = IF Uncached(ids) = <<>> THEN <<>>
                             ELSE <<DsCall("get_multi", Uncached(ids))>>
            /\ r.s.ds = datastore
            /\ \A id \in Ids :
                   r.s.mc["ns1"][_memcache_key(id)] =
                       IF id \in Range(Uncached(ids)) THEN ReadThrough(id)
                       ELSE Cached(id)
            /\ r2.exc = NoneVal
            /\ r2.s.dscalls = <<>>
            /\ r2.ret = r.ret

\* One call of the registered hook with the DTOs of the given ids.
HookCall(ids) == [hook |-> POST_LOAD_HOOKS[1], ids |-> ids]

\* The ids of the list that bulk_load reads from the datastore and finds
\* there, in the order of the list.
FetchedAndFound(ids) ==
    LET IsFound(id) == Stored(Cur, id)
    IN  SelectSeq(Uncached(ids), IsFound)

\* What the claim lets a call apply the hooks to, given the ids of the DTOs
\* it read from the datastore: one call of the hook with exactly these, and
\* no call (or one with the empty list) when there are none.
OncePerStoreSourced(hookcalls, ids) ==
    \/ hookcalls = <<HookCall(ids)>>
    \/ ids = <<>> /\ hookcalls = <<>>

\* C24 as claimed: with caching enabled, the backend reachable and no
\* snapshot, load(id) and bulk_load(L) call the registered post-load hook
\* once, with exactly the DTOs they read from the datastore in that call,
\* and never with a DTO served from the cache.
C24_Original ==
    (CAN_USE_MEMCACHE /\ ~IS_READONLY) =>
        /\ \A id \in Ids :
               OncePerStoreSourced(load(Cur, DaoEnvNow, id).s.hookcalls,
                                   FetchedAndFound(<<id>>))
        /\ \A ids \in IdLists :
               OncePerStoreSourced(bulk_load(Cur, DaoEnvNow, ids).s.hookcalls,
                                   FetchedAndFound(ids))

\* Request i of the call logged in l to the distributed cache stores what
\* the datastore read made just before it returned (the read-through of
\* _load_entity).
IsPopulation(l, i) ==
    /\ l.calls[i].op \in {"set", "set_multi"}
    /\ \E j \in 1..Len(l.dscalls) :
           /\ l.dscalls[j].op \in {"get", "get_multi", "scan"}
           /\ l.dsat[j] = i - 1

\* Request i of the call logged in l invalidates or republishes a cache
\* entry.
IsInvalidation(l, i) ==
    \/ l.calls[i].op \in {"delete", "delete_multi"}
    \/ l.calls[i].op \in {"set", "set_multi"} /\ ~IsPopulation(l, i)

\* Datastore call j of the call logged in l is a write that succeeded (a
\* failed write raises and is the last thing the call does).
IsSuccessfulWrite(l, j) ==
    /\ l.dscalls[j].op \in {"put", "put_multi", "delete"}
    /\ ~(l.exc = "datastore_errors.Error" /\ j = Len(l.dscalls))

\* C25: in every save, save_all and delete, whether the cache writes or the
\* datastore write fail or not, every request to the distributed cache that
\* invalidates or republishes an entry (the delete of the get_all entry, the
\* set or delete of a record's entry) is made after a datastore write of
\* the call that succeeded; the requests made before the write are the
\* read-through of _load_entity only.
C25_InvalidationAfterWrite ==
    last.op \in {"save", "save_all", "dao_delete"} =>
        \A i \in 1..Len(last.calls) :
            IsInvalidation(last, i) =>
                \E j \in 1..Len(last.dscalls) :
                    IsSuccessfulWrite(last, j) /\ last.dsat[j] < i

\* C25 witness: a save has just returned that read its record through the
\* cache (a set before the write), put the entity, and only then deleted the
\* get_all entry and republished the record.
C25_Witness ==
    /\ last.op = "save"
    /\ last.exc = NoneVal
    /\ \E j \in 1..Len(last.dscalls) :
           /\ last.dscalls[j].op = "put"
           /\ \E k \in 1..last.dsat[j] : last.calls[k].op = "set"
           /\ \E i \in (last.dsat[j] + 1)..Len(last.calls) :
                  last.calls[i].op = "delete"
           /\ \E i \in (last.dsat[j] + 1)..Len(last.calls) :
                  last.calls[i].op = "set"

\* What the distributed cache holds under the get_all key.
CachedAll == memcacheStore["ns1"][_memcache_all_key]

\* The DTOs of the records the datastore of state s holds.
StoredDtos(s) ==
    {RetDto(DTO(i, transforms_loads(s.ds[i]))) : i \in {j \in Ids : Stored(s, j)}}

\* The get_all() that follows the call with result r: its result.
NextGetAll(r) == get_all(Fresh(r.s), DaoEnv("ns1", {}))

\* C26: whatever the cache holds under the get_all key (nothing, the
\* known-empty marker or an earlier result), and whether the cache write of
\* the save fails or not: after a save(d) that returned id, the next
\* get_all() returns the records of the datastore, the record id with d's
\* payload among them; after a delete(dto) that returned, the next get_all()
\* returns the records of the datastore, none with dto's id among them.
C26_WritesInvalidateGetAll ==
    /\ \A d \in SavableDtos, failops \in DaoFailOps :
           LET r == save(Cur, DaoEnv("ns1", failops), d)
               g == NextGetAll(r)
           IN  r.exc = NoneVal =>
                   /\ g.exc = NoneVal
                   /\ g.ret.kind = "values"
                   /\ g.ret.items = StoredDtos(r.s)
                   /\ RetDto(DTO(r.ret.v, d.dict)) \in g.ret.items
    /\ \A i \in Ids :
           LET r == dao_delete(Cur, DaoEnv("ns1", {}), DTO(i, EmptyDict))
               g == NextGetAll(r)
           IN  r.exc = NoneVal =>
                   /\ g.exc = NoneVal
                   /\ g.ret.items = StoredDtos(r.s)
                   /\ \A item \in g.ret.items : item.id # i

\* C26 witness: a get_all has just cached its result, a dict of one record
\* with the payload {}; a save that changes the record's payload to
\* {'x': 1} returns, and the get_all after it returns the record with the
\* new payload although the cached dict held the old one.
C26_Witness ==
    /\ last.op = "get_all"
    /\ CachedAll = DictOfDtos([i \in {"1"} |-> DTO("1", EmptyDict)])
    /\ LET r == save(Cur, DaoEnv("ns1", {}), DTO("1", DictX(1)))
       IN  /\ r.exc = NoneVal
           /\ r.ret.v = "1"
           /\ NextGetAll(r).ret.items = {RetDto(DTO("1", DictX(1)))}

\* C27 as claimed: with caching enabled and the backend reachable, inside or
\* outside a snapshot opened now, and whatever the datastore holds, two
\* get_all() in a row return equal results and the second makes no datastore
\* call.
C27_Original ==
    \A s \in StartsNow :
        LET r1 == get_all(s, DaoEnvNow)
            r2 == get_all(Fresh(r1.s), DaoEnvNow)
        IN  /\ r1.exc = NoneVal
            /\ r2.exc = NoneVal
            /\ r2.ret = r1.ret
            /\ r2.s.dscalls = <<>>

\* C28: whatever the datastore holds, the scan of get_all_iter ends: it
\* makes queries that each return at least one record, followed by one
\* query that returns none, after which it stops (at most one query per
\* record and one more); it has then yielded one DTO for every stored
\* record and none twice, and has not changed the datastore.
C28_ScanTerminates ==
    LET it == get_all_iter(Cur, DaoEnv("ns1", {}))
        scans == it.s.dscalls
    IN  /\ it.exc = NoneVal
        /\ Len(scans) >= 1
        /\ Len(scans) <= Cardinality(Ids) + 1
        /\ \A k \in 1..Len(scans) :
               /\ scans[k].op = "scan"
               /\ (scans[k].ids = <<>>) <=> (k = Len(scans))
        /\ {RetDto(it.ret[k]) : k \in 1..Len(it.ret)} = StoredDtos(Cur)
        /\ Len(it.ret) = Cardinality(StoredDtos(Cur))
        /\ it.s.ds = datastore

\* C28 witness: a get_all that missed the cache has just scanned a datastore
\* of two records: one query returned both, the next none, and the call
\* returned the two DTOs.
C28_Witness ==
    /\ last.op = "get_all"
    /\ last.exc = NoneVal
    /\ last.dscalls = <<DsCall("scan", <<"1", "2">>), DsCall("scan", <<>>)>>
    /\ Cardinality(last.ret.items) = 2

\* The lists of DTOs, of either payload, the DAO class of this state can be
\* handed by save_all: the DTOs that have an id have different ones.
SavableLists ==
    {l \in ListsUpTo(Dtos, MaxIds) :
         /\ ENTITY_KEY_TYPE = "EntityKeyTypeName" =>
                \A i \in 1..Len(l) : l[i].id # NoneVal
         /\ \A i, j \in 1..Len(l) :
                (i # j /\ l[i].id # NoneVal) => l[i].id # l[j].id
         /\ CanAllocate(save_all_create(Cur, DaoEnv("ns1", {}), l, 1, <<>>))}

\* C29 as claimed: for either key strategy, with the cache and the datastore
\* working, save_all(dtos) returns a list as long as dtos of identifiers;
\* the DTOs without an id get different ids that were free; the i-th
\* identifier is the one the datastore holds the i-th payload under; the
\* get_all() after it returns the records of the datastore, and load of the
\* i-th identifier returns the i-th payload.
C29_Original ==
    \A dtos \in SavableLists :
        LET r == save_all(Cur, DaoEnv("ns1", {}), dtos)
        IN  r.exc = NoneVal =>
                /\ r.ret.kind = "list"
                /\ Len(r.ret.items) = Len(dtos)
                /\ \A i \in 1..Len(dtos) :
                       /\ r.ret.items[i] \in Ids
                       /\ r.s.ds[r.ret.items[i]] =
                              transforms_dumps(dtos[i].dict)
                       /\ dtos[i].id = NoneVal =>
                              r.ret.items[i] \in FreeIds(Cur)
                       /\ load(Fresh(r.s), DaoEnv("ns1", {}),
                               r.ret.items[i]).ret
                              = RetDto(DTO(r.ret.items[i], dtos[i].dict))
                /\ \A i, j \in 1..Len(dtos) :
                       i # j => r.ret.items[i] # r.ret.items[j]
                /\ NextGetAll(r).ret.items = StoredDtos(r.s)

\* C30 as claimed: with the cache and the datastore working, delete(dto)
\* returns for every dto, stored or not; the datastore then holds no record
\* for dto.id, the cache (when enabled) holds neither the record's key nor
\* the get_all key, and load(dto.id) returns None.
C30_Original ==
    \A i \in Ids :
        LET x == dao_delete(Cur, DaoEnv("ns1", {}), DTO(i, EmptyDict))
        IN  /\ x.exc = NoneVal
            /\ ~Stored(x.s, i)
            /\ CAN_USE_MEMCACHE =>
                   /\ x.s.mc["ns1"][_memcache_key(i)] = Missing
                   /\ x.s.mc["ns1"][_memcache_all_key] = Missing
            /\ load(Fresh(x.s), DaoEnv("ns1", {}), i).ret = RetNone

(* ------------------------------------------------------------------ *)
(* Claims C31..C40: failures, concurrency, counters, namespaces        *)
(* ------------------------------------------------------------------ *)

\* The state of s at the start of the owner's next call.
AfterLoad(s, id) == Fresh(load(s, DaoEnv("ns1", {}), id).s)

\* The states inside a read-only snapshot opened now, after the owner has
\* loaded any subset of the ids (their keys are then in the local map).
SnapshotsNow ==
    LET s0 == Fresh(begin_readonly(Cur, EnvNow).s)
    IN  {s0} \cup {AfterLoad(s0, i) : i \in Ids}
             \cup {AfterLoad(AfterLoad(s0, i), j) : i, j \in Ids}

\* The kinds of datastore call (as logged) that fail when the datastore
\* fails the calls of failops.
FailedCalls(failops) ==
    (IF "db.get" \in failops THEN {"get", "get_multi"} ELSE {})
        \cup (IF "query.run" \in failops THEN {"scan"} ELSE {})
        \cup (IF "db.put" \in failops THEN {"put", "put_multi"} ELSE {})
        \cup (IF "db.delete" \in failops THEN {"delete"} ELSE {})

\* Call r, made from state s while the datastore failed the calls of
\* failops, surfaced the failure: when it made such a call, that was its
\* last datastore call, it raised the datastore's error and left the
\* datastore as it was.
Surfaced(s, r, failops) ==
    \A k \in 1..Len(r.s.dscalls) :
        r.s.dscalls[k].op \in FailedCalls(failops) =>
            /\ k = Len(r.s.dscalls)
            /\ r.exc = "datastore_errors.Error"
            /\ r.s.ds = s.ds

\* What the local map of s holds for the key of id ("absent" when it has no
\* entry).
LocalEntry(s, id) ==
    IF HasLocal(s, "ns1", _memcache_key(id))
    THEN s.lc.d["ns1"][_memcache_key(id)] ELSE "absent"

\* After call r from state s neither tier holds, for any id, a value the
\* datastore does not hold: each single-record entry is what it was before
\* the call, or nothing, or what a read-through of the datastore caches;
\* the get_all entry is what it was.
NothingUnsavedCached(s, r) ==
    /\ r.s.mc["ns1"][_memcache_all_key] = s.mc["ns1"][_memcache_all_key]
    /\ \A id \in Ids :
           /\ r.s.mc["ns1"][_memcache_key(id)] \in
                  {s.mc["ns1"][_memcache_key(id)], StoredEntity(s, id),
                   NO_OBJECT}
           /\ LocalEntry(r.s, id) \in
                  {LocalEntry(s, id), NoneVal, StoredEntity(s, id),
                   NO_OBJECT}

\* Call r failed in its datastore write.
WriteFailed(r) ==
    /\ r.exc = "datastore_errors.Error"
    /\ r.s.dscalls # <<>>
    /\ r.s.dscalls[Len(r.s.dscalls)].op \in {"put", "put_multi", "delete"}

\* C31 as claimed: inside or outside a snapshot, whatever the tiers hold, a
\* load, bulk_load, get_all, save, save_all or delete during which the
\* datastore fails a read or the write raises the datastore's error at that
\* call, and when the write of save, save_all or delete failed no cache
\* tier holds the unsaved value and the get_all entry is as it was.
C31_Original ==
    \A s \in {Cur} \cup SnapshotsNow :
        /\ \A failops \in {{"db.get"}, {"query.run"}} :
               LET env == DaoEnv("ns1", failops)
               IN  /\ \A id \in Ids : Surfaced(s, load(s, env, id), failops)
                   /\ \A ids \in IdLists :
                          Surfaced(s, bulk_load(s, env, ids), failops)
                   /\ Surfaced(s, get_all(s, env), failops)
        /\ \A failops \in {{"db.get"}, {"db.put"}, {"db.delete"}} :
               LET env == DaoEnv("ns1", failops)
                   Settled(r) ==
                       /\ Surfaced(s, r, failops)
                       /\ WriteFailed(r) => NothingUnsavedCached(s, r)
               IN  /\ \A d \in SavableDtos : Settled(save(s, env, d))
                   /\ \A dtos \in SavableLists :
                          Settled(save_all(s, env, dtos))
                   /\ \A id \in Ids :
                          Settled(dao_delete(s, env, DTO(id, EmptyDict)))

\* Both units have completed their call.
BothDone == \A u \in Units : units[u].pc = "done"

\* The single-record cache entry of id is not older than the datastore: it
\* is absent, or it is what a read-through of the datastore caches now.
EntryCurrent(id) == Cached(id) \in {Missing, ReadThrough(id)}

\* C32 as claimed: starting from an empty cache, once a load(id) in one unit
\* and a save or delete of the same id in another have both completed, in
\* whatever order their steps were taken, the cache entry of id is absent or
\* holds what the datastore holds for id, so that the next load(id) returns
\* what the datastore holds.
C32_Original ==
    (/\ BothDone
     /\ units["reader"].op = "load"
     /\ units["writer"].op \in {"save", "dao_delete"}
     /\ units["writer"].dto.id = units["reader"].dto.id)
        => LET id == units["reader"].dto.id
           IN  /\ EntryCurrent(id)
               /\ load(Cur, UnitEnv, id).ret = DirectLoad(id)

\* What get_all caches for the records the datastore holds now.
AllCurrent ==
    IF StoredDtos(Cur) = {} THEN NO_OBJECT
    ELSE DictOfDtos([i \in {j \in Ids : Stored(Cur, j)} |->
                         DTO(i, transforms_loads(datastore[i]))])

\* C33 as claimed: starting from an empty cache, once a get_all() in one
\* unit and a save or delete in another have both completed, in whatever
\* order their steps were taken, the get_all entry of the cache is absent or
\* holds the records the datastore holds, so that the next get_all() returns
\* the records of the datastore.
C33_Original ==
    (/\ BothDone
     /\ units["reader"].op = "get_all"
     /\ units["writer"].op \in {"save", "dao_delete"})
        => /\ CachedAll \in {Missing, AllCurrent}
           /\ get_all(Cur, UnitEnv).ret.items = StoredDtos(Cur)

\* What the distributed cache holds under the key of the student property.
CachedProperty(key) == memcacheStore["ns1"][student_property_memcache_key(key)]

\* C34 as claimed: StudentPropertyEntity.delete() of a stored entity
\* completes without error, and after it the datastore holds no entity under
\* the key name and, with caching enabled, the cache holds no entry for it.
C34_Original ==
    last.op = "StudentPropertyEntity.delete" =>
        /\ last.exc = NoneVal
        /\ last.dscalls # <<>>
        /\ \A k \in 1..Len(last.dscalls) :
               /\ last.dscalls[k].op = "delete"
               /\ ~Stored(Cur, last.dscalls[k].ids[1])
               /\ CAN_USE_MEMCACHE =>
                      CachedProperty(last.dscalls[k].ids[1]) = Missing

\* The hits and misses call r counted on the distributed tier and on the
\* local tier, and the puts it counted as accepted or as too big.
RemoteCounts(r) == r.s.ctr.CACHE_HIT + r.s.ctr.CACHE_MISS

LocalCounts(r) == r.s.ctr.CACHE_HIT_LOCAL + r.s.ctr.CACHE_MISS_LOCAL

PutCounts(r) == r.s.ctr.CACHE_PUT + r.s.ctr.CACHE_PUT_TOO_BIG

\* Call r consulted the distributed tier and got an answer.
RemoteConsulted(r) == r.exc = NoneVal /\ r.s.calls # <<>>

\* Every set and every set_multi of a non-empty mapping, small or too big,
\* the backend reachable or not, counts exactly one put or one too-big put.
PutsCountedOnce ==
    \A fail \in BOOLEAN :
        /\ \A k \in Keys, v \in Values \cup {"big"} :
               PutCounts(set(Cur, Env("ns1", fail), k, v, NoneVal)) = 1
        /\ \A m \in DictsOver(Keys, Values \cup {"huge"}) :
               PutCounts(set_multi(Cur, Env("ns1", fail), m, NoneVal)) = 1

\* Every get counts one hit or one miss on each tier it consults: on the
\* local tier during a snapshot, on the distributed tier when it answered.
GetsCountedOnce ==
    \A k \in Keys :
        LET r == get(Cur, EnvNow, k, NoneVal)
        IN  /\ LocalCounts(r) = IF IS_READONLY THEN 1 ELSE 0
            /\ RemoteCounts(r) = IF RemoteConsulted(r) THEN 1 ELSE 0

\* Every key of a get_multi counts as one hit or one miss: on the tier that
\* served the call when the local map did, on the distributed tier
\* otherwise.
MultiGetsCountedOnce ==
    \A ks \in ListsUpTo(Keys, MaxKeys) :
        LET r == get_multi(Cur, EnvNow, ks, NoneVal)
        IN  r.exc = NoneVal =>
                IF RemoteConsulted(r)
                THEN RemoteCounts(r) = Cardinality(Range(ks))
                ELSE LocalCounts(r) = Len(ks)

\* C35 as claimed: with caching enabled, a set or set_multi counts exactly
\* one put or too-big put, a get exactly one hit or miss per tier it
\* consults, and a get_multi exactly one hit or miss per requested key.
C35_Original ==
    OwnerCalls => PutsCountedOnce /\ GetsCountedOnce /\ MultiGetsCountedOnce

\* The calls that write, delete or read in a namespace.
NsCalls ==
    Writes \cup {[op |-> "delete", key |-> k] : k \in Keys}
           \cup {[op |-> "get", key |-> k] : k \in Keys}

\* Call c made in state s with the namespace argument n.
DoNsCall(s, c, n) ==
    CASE c.op = "set" ->
             LET k == CHOOSE x \in DOMAIN c.mapping : TRUE
             IN  set(s, EnvNow, k, c.mapping[k], n)
      [] c.op = "set_multi" -> set_multi(s, EnvNow, c.mapping, n)
      [] c.op = "delete" -> delete(s, EnvNow, c.key, n)
      [] c.op = "get" -> get(s, EnvNow, c.key, n)

\* What the reads of namespace n return in state s: get of every key and
\* get_multi of every key list.
ReadsOf(s, n) ==
    [rd \in Reads |->
         LET r == IF rd.op = "get" THEN get(s, EnvNow, rd.keys[1], n)
                  ELSE get_multi(s, EnvNow, rd.keys, n)
         IN  <<r.exc, r.ret>>]

\* C36: inside or outside a snapshot, whatever the two tiers hold in either
\* namespace, a set, set_multi, delete or get made in one namespace leaves
\* every get and get_multi of the other namespace returning what it
\* returned before.
C36_NamespacesIsolated ==
    \A n1 \in Namespaces, n2 \in Namespaces, c \in NsCalls :
        n1 # n2 =>
            ReadsOf(Fresh(DoNsCall(Cur, c, n1).s), n2) = ReadsOf(Cur, n2)

\* C36 witness: inside a snapshot both namespaces hold k1, with different
\* values, in the distributed cache and in the local map; the set of k1 in
\* the namespace "default" has just been made, and k1 of "ns1" is unchanged
\* in both tiers.
C36_Witness ==
    /\ IS_READONLY
    /\ last.op = "set"
    /\ last.calls = <<Call("set", DEFAULT_NAMESPACE_NAME, {"k1"})>>
    /\ memcacheStore[DEFAULT_NAMESPACE_NAME]["k1"] = "v2"
    /\ memcacheStore["ns1"]["k1"] = "v1"
    /\ LocalValue(Cur, DEFAULT_NAMESPACE_NAME, "k1") = "v2"
    /\ LocalValue(Cur, "ns1", "k1") = "v1"

\* State s after another process has written v under key of "ns1" in the
\* distributed cache, or has deleted the key (v = Missing).
OtherWrote(s, key, v) == [s EXCEPT !.mc["ns1"][key] = v]

\* The second of two gets of key k by the owner, started in state s: between
\* them another process writes v under the key, and the owner makes the
\* read mid (none when mid is NoRead).
NoRead == [op |-> "none", keys |-> <<>>]

SecondGet(s, k, v, mid) ==
    LET s1 == OtherWrote(Fresh(s), k, v)
        s2 == IF mid = NoRead THEN s1 ELSE Fresh(DoRead(s1, mid).s)
    IN  get(s2, EnvNow, k, NoneVal)

\* C37 as claimed: within one active snapshot, a get(k) by the owner
\* followed, after writes and deletes of other processes and reads of the
\* owner but no set of k by the owner, by a second get(k) returns the same
\* value both times, None included.
C37_Original ==
    (IS_READONLY /\ OwnerCalls) =>
        \A k \in Keys, v \in Values \cup {Missing},
           mid \in Reads \cup {NoRead} :
            LET r1 == get(Cur, EnvNow, k, NoneVal)
                r2 == SecondGet(r1.s, k, v, mid)
            IN  r1.exc = NoneVal =>
                    (r2.exc = NoneVal /\ r2.ret = r1.ret)

\* C38 as claimed: for either key strategy and whatever the cache holds for
\* the id (the entity, nothing, or NO_OBJECT), save(dto) of a DTO whose id
\* names a stored record returns dto.id, leaves the payload of dto in that
\* record and leaves every other id of the datastore as it was.
C38_Original ==
    \A d \in SavableDtos :
        (d.id # NoneVal /\ Stored(Cur, d.id)) =>
            LET r == save(Cur, DaoEnv("ns1", {}), d)
            IN  /\ r.exc = NoneVal
                /\ r.ret = RetValue(d.id)
                /\ r.s.ds[d.id] = transforms_dumps(d.dict)
                /\ \A i \in Ids \ {d.id} : r.s.ds[i] = datastore[i]

\* The call with result r, made in state s, raised and left the datastore,
\* the distributed cache and the local map of s as they were.
FailedAtomically(s, r) ==
    /\ r.exc # NoneVal
    /\ r.s.ds = s.ds
    /\ r.s.mc = s.mc
    /\ r.s.lc = s.lc

\* The lists of DTOs save_all can be handed in state s.
SavableListsIn(s) ==
    {l \in ListsUpTo(Dtos, MaxIds) :
         /\ ENTITY_KEY_TYPE = "EntityKeyTypeName" =>
                \A i \in 1..Len(l) : l[i].id # NoneVal
         /\ \A i, j \in 1..Len(l) :
                (i # j /\ l[i].id # NoneVal) => l[i].id # l[j].id
         /\ CanAllocate(save_all_create(s, DaoEnv("ns1", {}), l, 1, <<>>))}

\* C39 as claimed: inside a read-only snapshot, whichever keys the local map
\* holds, every save, save_all and delete raises and leaves the datastore,
\* the distributed cache and the local map unchanged.
C39_Original ==
    \A s \in SnapshotsNow :
        /\ \A l \in SavableListsIn(s) :
               /\ FailedAtomically(s, save_all(s, DaoEnv("ns1", {}), l))
               /\ Len(l) = 1 =>
                      FailedAtomically(s, save(s, DaoEnv("ns1", {}), l[1]))
        /\ \A i \in Ids :
               FailedAtomically(
                   s, dao_delete(s, DaoEnv("ns1", {}), DTO(i, EmptyDict)))

\* bulk_load(L) and load agree in state s: bulk_load returns a list whose
\* i-th element is what load(L[i]) returns from the same state.
AgreesWithLoad(s, L) ==
    LET b == bulk_load(s, DaoEnv("ns1", {}), L)
    IN  /\ b.exc = NoneVal
        /\ \A i \in 1..Len(L) :
               b.ret.items[i] = load(s, DaoEnv("ns1", {}), L[i]).ret

\* C40 as claimed: outside a snapshot, and inside one whichever keys the
\* local map holds, every element of bulk_load(L) is None exactly when
\* load of that id is None, and otherwise has the id and payload load gives.
C40_Original ==
    \A s \in {Cur} \cup SnapshotsNow, L \in IdLists : AgreesWithLoad(s, L)

====
